---- MODULE Spec2Model ----
(***************************************************************************)
(* A model of the CompatibilityGLEngine scene engine: the GameObject /     *)
(* Container scene graph, its local<->world point conversion, the          *)
(* oriented-box collision test, the planar shadow matrix, the multi-pass   *)
(* display() and the interaction dispatch.                                 *)
(*                                                                         *)
(* Arithmetic.  The program computes in float.  The model computes in      *)
(* exact rational arithmetic (a number is a pair <<n, d>>, d > 0, in       *)
(* lowest terms), so every equality below is the equality the float code   *)
(* approximates "within tolerance".  cos and sin are exact on multiples of *)
(* 90 degrees, and every angle the model hands to them is such a multiple. *)
(***************************************************************************)
EXTENDS Integers, Sequences, FiniteSets, TLC

VARIABLES
    heap,            \* the GameObjects: node id -> its fields
    objects,         \* main.cpp `objects`: the scene root list
    physicsObjects,  \* main.cpp `physicsObjects`
    camera,          \* main.cpp `camera` (x, y, z, yaw)
    targetAngle,     \* the doors' static targetAngle (left) and targetAngleR (right)
    currentAngle,    \* the doors' static currentAngle (left) and currentAngleR (right)
    gl,              \* the OpenGL server state display() switches
    drawLog,         \* draw() calls of the frame being rendered, in order
    pc,              \* position of the operation in progress
    call,            \* arguments and locals of the operation in progress
    ret,             \* what the operation in progress has produced so far
    keys,            \* main.cpp `keys`: the keys held down
    playerVelocityY, \* main.cpp `playerVelocityY`
    lastTime         \* main.cpp `lastTime`, in milliseconds

vars == <<heap, objects, physicsObjects, camera, targetAngle, currentAngle,
          gl, drawLog, pc, call, ret, keys, playerVelocityY, lastTime>>

-----------------------------------------------------------------------------
(* Bounds of the model.                                                    *)

\* nodes of a tree in the interaction and render specifications
MaxNodes == 4
\* length of the parent chain above the node of a transform or collision query
MaxDepth == 2
\* translations applied in one collision experiment
MaxMoves == 2
\* nodes of a scene in the render specification
RenderNodes == 3

\* the clock stops at MaxTime tenths of a second
MaxTime == 3

\* the clock of the jump specification stops at MaxFall tenths of a second
MaxFall == 8

\* the clock of the walking specification stops at MaxWalk tenths of a second
MaxWalk == 3

\* short ticks of the doors' clock stop at MaxPhase milliseconds
MaxPhase == 12

\* nodes of a scene in the collision query specification
SceneNodes == 3

\* nodes scene assembly may allocate in the assembly specification
BuildNodes == 4

-----------------------------------------------------------------------------
(* float, modelled as exact rationals                                      *)

Abs(i) == IF i < 0 THEN -i ELSE i

RECURSIVE GCD(_, _)
GCD(a, b) == IF b = 0 THEN a ELSE GCD(b, a % b)

\* the rational n/d in lowest terms with a positive denominator
Q(n, d) ==
    LET g == GCD(Abs(n), Abs(d))
        s == IF d < 0 THEN -1 ELSE 1
    IN  <<(s * n) \div g, (s * d) \div g>>

I(n) == <<n, 1>>

RAdd(a, b) ==
    LET g == GCD(a[2], b[2])
    IN  Q(a[1] * (b[2] \div g) + b[1] * (a[2] \div g), (a[2] \div g) * b[2])

RNeg(a) == <<-a[1], a[2]>>

RSub(a, b) == RAdd(a, RNeg(b))

RMul(a, b) ==
    LET g1 == GCD(Abs(a[1]), b[2])
        g2 == GCD(Abs(b[1]), a[2])
    IN  IF a[1] = 0 \/ b[1] = 0 THEN <<0, 1>>
        ELSE <<(a[1] \div g1) * (b[1] \div g2), (a[2] \div g2) * (b[2] \div g1)>>

\* b # 0
RDiv(a, b) == RMul(a, Q(b[2], b[1]))

RAbs(a) == <<Abs(a[1]), a[2]>>

RLt(a, b) == a[1] * b[2] < b[1] * a[2]

RGt(a, b) == RLt(b, a)

RMax(a, b) == IF RLt(a, b) THEN b ELSE a

\* std::sqrt of a rational whose numerator and denominator are perfect
\* squares: the exact root, found by bisection
RECURSIVE Bisect(_, _, _)
Bisect(n, lo, hi) ==
    IF lo >= hi THEN lo
    ELSE LET mid == (lo + hi + 1) \div 2
         IN  IF mid <= n \div mid THEN Bisect(n, mid, hi)
             ELSE Bisect(n, lo, mid - 1)

ISqrt(n) == IF n = 0 THEN 0 ELSE Bisect(n, 1, n)

IsSquare(a) == ISqrt(a[1]) * ISqrt(a[1]) = a[1] /\ ISqrt(a[2]) * ISqrt(a[2]) = a[2]

RSqrt(a) == <<ISqrt(a[1]), ISqrt(a[2])>>

\* cos and sin of an angle in degrees (deg * M_PI / 180), to one decimal
\* place: exact on the multiples of 90, and within 2 degrees of a multiple
\* of 90 the rounded values are those of the multiple (|sin 2| < 0.05,
\* cos 2 > 0.95).  Other angles are not modelled.
Quarter(deg) == (deg[1] + 45 * deg[2]) \div (90 * deg[2])

OnLattice(deg) == Abs(deg[1] - 90 * Quarter(deg) * deg[2]) <= 2 * deg[2]

Undefined == CHOOSE x \in {} : TRUE

Cos(deg) ==
    IF OnLattice(deg) THEN I(<<1, 0, -1, 0>>[(Quarter(deg) % 4) + 1])
    ELSE Undefined

Sin(deg) ==
    IF OnLattice(deg) THEN I(<<0, 1, 0, -1>>[(Quarter(deg) % 4) + 1])
    ELSE Undefined

-----------------------------------------------------------------------------
(* Vec3                                                                    *)

Vec3(x, y, z) == [x |-> x, y |-> y, z |-> z]

V(x, y, z) == Vec3(I(x), I(y), I(z))

VAdd(a, b) == Vec3(RAdd(a.x, b.x), RAdd(a.y, b.y), RAdd(a.z, b.z))

VSub(a, b) == Vec3(RSub(a.x, b.x), RSub(a.y, b.y), RSub(a.z, b.z))

VDot(a, b) == RAdd(RAdd(RMul(a.x, b.x), RMul(a.y, b.y)), RMul(a.z, b.z))

\* squared distance between two points
DistSq(a, b) == VDot(VSub(a, b), VSub(a, b))

-----------------------------------------------------------------------------
(* GameObject: the fields of a node and their defaults                     *)

NoNode == 0

GameObject ==
    [ kind           |-> "Cube",        \* the dynamic type
      position       |-> V(0, 0, 0),
      rotation       |-> V(0, 0, 0),
      scale          |-> V(1, 1, 1),
      diffuseAlpha   |-> I(1),          \* material.diffuse[3]
      parent         |-> NoNode,
      castsShadow    |-> TRUE,
      interactAction |-> FALSE,         \* whether an InteractCallback is set
      updateAction   |-> FALSE,         \* whether an UpdateCallback is set
      children       |-> <<>>,          \* Container::children
      width          |-> I(0),          \* CollisionBox dimensions
      height         |-> I(0),
      depth          |-> I(0) ]

IsContainer(n) == heap[n].kind = "Container"

\* CollisionBox::CollisionBox
CollisionBox(w, h, d) ==
    [GameObject EXCEPT !.kind = "CollisionBox", !.width = w, !.height = h,
                       !.depth = d, !.castsShadow = FALSE]

\* Material::isTransparent through GameObject::isTransparent
isTransparent(n) == RLt(heap[n].diffuseAlpha, I(1))

\* the chain n, parent(n), ..., root
RECURSIVE Chain(_)
Chain(n) ==
    IF heap[n].parent = NoNode THEN <<n>> ELSE <<n>> \o Chain(heap[n].parent)

-----------------------------------------------------------------------------
(* Rest values of the variables an operation does not use                  *)

\* Camera's default members
CameraInit ==
    [x |-> I(0), y |-> I(1), z |-> I(5), yaw |-> I(-90), pitch |-> I(0)]

\* the doors' static angles: currentAngle / targetAngle of leftDoor,
\* currentAngleR / targetAngleR of rightDoor
DoorAngles == [left |-> I(0), right |-> I(0)]

\* the GL switches display() relies on, as init() leaves them
GLInit ==
    [lighting |-> TRUE, depthMask |-> TRUE, polygonOffset |-> FALSE,
     blend |-> FALSE, cullFace |-> FALSE, cullMode |-> "back"]

-----------------------------------------------------------------------------
(* GameObject::interact                                                    *)

Nodes == 1..MaxNodes

\* The trees scene assembly can build over Nodes: a node's parent is a
\* Container created before it, and children are in order of addChild.
ChildrenOf(par, n) ==
    LET S == {m \in DOMAIN par : par[m] = n}
        RECURSIVE Sorted(_, _)
        Sorted(k, acc) ==
            IF k \notin DOMAIN par THEN acc
            ELSE Sorted(k + 1, IF k \in S THEN Append(acc, k) ELSE acc)
    IN  Sorted(1, <<>>)

Trees(N) ==
    { [n \in N |->
          [GameObject EXCEPT !.kind = kd[n], !.parent = par[n],
                             !.children = ChildrenOf(par, n)]] :
        <<kd, par>> \in
            { kp \in [N -> {"Container", "Cube"}] \X [N -> N \cup {NoNode}] :
                \A n \in N :
                    kp[2][n] # NoNode =>
                        kp[2][n] < n /\ kp[1][kp[2][n]] = "Container" } }

\* GameObject::setInteractCallback on the nodes of H
WithHandlers(h, H) ==
    [n \in DOMAIN h |-> [h[n] EXCEPT !.interactAction = (n \in H)]]

InitInteract ==
    /\ keys = {}
    /\ playerVelocityY = I(0)
    /\ lastTime = 0
    /\ \E t \in Trees(Nodes), H \in SUBSET Nodes : heap = WithHandlers(t, H)
    /\ objects = <<>>
    /\ physicsObjects = <<>>
    /\ camera = CameraInit
    /\ targetAngle = DoorAngles
    /\ currentAngle = DoorAngles
    /\ gl = GLInit
    /\ drawLog = <<>>
    /\ pc = "idle"
    /\ call = [target |-> NoNode, this |-> NoNode]
    /\ ret = <<>>

\* a caller invokes n->interact()
InteractCall(n) ==
    /\ pc = "idle"
    /\ pc' = "interact"
    /\ call' = [target |-> n, this |-> n]
    /\ ret' = <<>>
    /\ UNCHANGED <<keys, playerVelocityY, lastTime, heap, objects,
                   physicsObjects, camera, targetAngle, currentAngle, gl,
                   drawLog>>

\* a missing `else`: the handler runs and the call bubbles all the same
Interact_Fallthrough(n) ==
    /\ ret' = IF heap[n].interactAction THEN Append(ret, n) ELSE ret
    /\ IF heap[n].parent # NoNode
       THEN /\ call' = [call EXCEPT !.this = heap[n].parent]
            /\ pc' = "interact"
       ELSE /\ call' = call
            /\ pc' = "returned"

\* The body of GameObject::interact with this = n.  `ret` logs the nodes
\* whose interactAction has been invoked; parent->interact() is the last
\* thing the body does, so the callee's frame replaces the caller's.
Interact(n) ==
    IF heap[n].interactAction
    THEN /\ ret' = Append(ret, n)
         /\ call' = call
         /\ pc' = "returned"
    ELSE IF heap[n].parent # NoNode
    THEN /\ call' = [call EXCEPT !.this = heap[n].parent]
         /\ pc' = "interact"
         /\ ret' = ret
    ELSE /\ call' = call
         /\ pc' = "returned"
         /\ ret' = ret

InteractStep ==
    /\ pc = "interact"
    /\ Interact(call.this)
    /\ UNCHANGED <<keys, playerVelocityY, lastTime, heap, objects,
                   physicsObjects, camera, targetAngle, currentAngle, gl,
                   drawLog>>

\* the caller goes on after interact() has returned
InteractReturn ==
    /\ pc = "returned"
    /\ pc' = "idle"
    /\ UNCHANGED <<keys, playerVelocityY, lastTime, heap, objects,
                   physicsObjects, camera, targetAngle, currentAngle, gl,
                   drawLog, call, ret>>

NextInteract ==
    \/ \E n \in Nodes : InteractCall(n)
    \/ InteractStep
    \/ InteractReturn

SpecInteract == InitInteract /\ [][NextInteract]_vars

\* the positions on Chain(n) of the nodes that own a handler
OwnerIndexes(n) ==
    {i \in 1..Len(Chain(n)) : heap[Chain(n)[i]].interactAction}

\* the nearest node on the chain n, parent(n), ..., root that owns a handler
NearestOwner(n) ==
    Chain(n)[CHOOSE i \in OwnerIndexes(n) : \A j \in OwnerIndexes(n) : i <= j]

\* C1: interact() on n invokes the handler of the nearest node of the chain
\* n, parent(n), ..., root that owns one, exactly once, and no other handler;
\* when no node of the chain owns a handler the call returns with none
\* invoked.  While the call is in progress it is at a node of the chain with
\* no owner below it, it has invoked nothing, and it can take its next step.
C1_InteractBubblesToNearestOwner ==
    /\ pc = "returned" =>
          ret = IF OwnerIndexes(call.target) = {} THEN <<>>
                ELSE <<NearestOwner(call.target)>>
    /\ pc = "interact" =>
          /\ ret = <<>>
          /\ \E i \in 1..Len(Chain(call.target)) :
                /\ Chain(call.target)[i] = call.this
                /\ \A j \in OwnerIndexes(call.target) : i <= j
          /\ ENABLED InteractStep

\* C1 witness: root -> mid -> leaf, only root owns a handler, interact() on
\* leaf has returned and root's handler ran.
C1_Witness ==
    /\ pc = "returned"
    /\ Len(Chain(call.target)) = 3
    /\ OwnerIndexes(call.target) = {3}
    /\ ret = <<Chain(call.target)[3]>>

\* C1 witness of the silent case: no handler on a chain of three nodes
C1_WitnessSilent ==
    /\ pc = "returned"
    /\ Len(Chain(call.target)) = 3
    /\ OwnerIndexes(call.target) = {}
    /\ ret = <<>>

-----------------------------------------------------------------------------
(* Local <-> world conversion (GameObject.cpp)                             *)

\* the 0.0001f below which getPointInLocalSpace does not divide by a scale
\* component and rotateAround takes an axis for zero
Epsilon == Q(1, 10000)

\* applyRotation: X, then Y, then Z
applyRotation(v, rotDeg) ==
    LET y1 == RSub(RMul(v.y, Cos(rotDeg.x)), RMul(v.z, Sin(rotDeg.x)))
        z1 == RAdd(RMul(v.y, Sin(rotDeg.x)), RMul(v.z, Cos(rotDeg.x)))
        x1 == v.x
        x2 == RAdd(RMul(x1, Cos(rotDeg.y)), RMul(z1, Sin(rotDeg.y)))
        z2 == RAdd(RMul(RNeg(x1), Sin(rotDeg.y)), RMul(z1, Cos(rotDeg.y)))
        y2 == y1
        x3 == RSub(RMul(x2, Cos(rotDeg.z)), RMul(y2, Sin(rotDeg.z)))
        y3 == RAdd(RMul(x2, Sin(rotDeg.z)), RMul(y2, Cos(rotDeg.z)))
        z3 == z2
    IN  Vec3(x3, y3, z3)

\* the inverse written in the order of applyRotation (X, Y, Z) with negated
\* angles: the order is not reversed
applyInverseRotation_SameOrder(v, rotDeg) ==
    applyRotation(v, Vec3(RNeg(rotDeg.x), RNeg(rotDeg.y), RNeg(rotDeg.z)))

\* applyInverseRotation: Z, then Y, then X, with negated angles
applyInverseRotation(v, rotDeg) ==
    LET radX == RNeg(rotDeg.x)
        radY == RNeg(rotDeg.y)
        radZ == RNeg(rotDeg.z)
        x1 == RSub(RMul(v.x, Cos(radZ)), RMul(v.y, Sin(radZ)))
        y1 == RAdd(RMul(v.x, Sin(radZ)), RMul(v.y, Cos(radZ)))
        z1 == v.z
        x2 == RAdd(RMul(x1, Cos(radY)), RMul(z1, Sin(radY)))
        z2 == RAdd(RMul(RNeg(x1), Sin(radY)), RMul(z1, Cos(radY)))
        y2 == y1
        y3 == RSub(RMul(y2, Cos(radX)), RMul(z2, Sin(radX)))
        z3 == RAdd(RMul(y2, Sin(radX)), RMul(z2, Cos(radX)))
        x3 == x2
    IN  Vec3(x3, y3, z3)

\* GameObject::getPointInWorldSpace: scale, rotate, translate, then the parent
RECURSIVE getPointInWorldSpace(_, _)
getPointInWorldSpace(n, localPoint) ==
    LET o == heap[n]
        scaled == Vec3(RMul(localPoint.x, o.scale.x),
                       RMul(localPoint.y, o.scale.y),
                       RMul(localPoint.z, o.scale.z))
        p == VAdd(applyRotation(scaled, o.rotation), o.position)
    IN  IF o.parent # NoNode THEN getPointInWorldSpace(o.parent, p) ELSE p

\* the division left out only for a component strictly below the threshold
InverseScale_DividesAtEpsilon(c, s) ==
    IF RLt(RAbs(s), Epsilon) THEN c ELSE RDiv(c, s)

\* a coordinate divided by a scale component, unless the component is too small
InverseScale(c, s) == IF RGt(RAbs(s), Epsilon) THEN RDiv(c, s) ELSE c

\* GameObject::getPointInLocalSpace: the parent first, then untranslate,
\* unrotate, unscale
RECURSIVE getPointInLocalSpace(_, _)
getPointInLocalSpace(n, worldPoint) ==
    LET o == heap[n]
        p0 == IF o.parent # NoNode
              THEN getPointInLocalSpace(o.parent, worldPoint)
              ELSE worldPoint
        p == applyInverseRotation(VSub(p0, o.position), o.rotation)
    IN  Vec3(InverseScale(p.x, o.scale.x),
             InverseScale(p.y, o.scale.y),
             InverseScale(p.z, o.scale.z))

\* getRealPosition returning the local position whatever the parent
getRealPosition_LocalOnly(n) == heap[n].position

\* GameObject::getRealPosition
getRealPosition(n) ==
    IF heap[n].parent = NoNode THEN heap[n].position
    ELSE getPointInWorldSpace(heap[n].parent, heap[n].position)

\* GameObject::getRealRotation: the sum of the Euler angles up the chain
RECURSIVE getRealRotation(_)
getRealRotation(n) ==
    IF heap[n].parent # NoNode
    THEN VAdd(getRealRotation(heap[n].parent), heap[n].rotation)
    ELSE heap[n].rotation

-----------------------------------------------------------------------------
(* Inputs of the transform experiments                                     *)

\* position, rotation (degrees) and scale of one node
Transform(p, r, s) == [position |-> p, rotation |-> r, scale |-> s]

\* scales with a component at or next to Epsilon
NearEpsilonSamples ==
    { Transform(V(0, 0, 1), V(0, 90, 0), Vec3(I(1), Epsilon, I(1))),
      Transform(V(0, 0, 0), V(270, 0, 90), Vec3(Q(1, 5000), I(1), I(1))) }

TransformSamples ==
    { Transform(V(0, 0, 0), V(0, 0, 0), V(1, 1, 1)),
      Transform(V(1, 2, 3), V(90, 0, 0), V(2, 1, 1)),
      Transform(V(-1, 0, 2), V(0, 90, 270), Vec3(I(1), Q(1, 2), I(-1))),
      Transform(V(0, 1, 0), V(90, 180, 90), Vec3(I(2), I(3), Q(1, 2))),
      Transform(V(1, 0, 0), V(0, 0, 0), V(0, 1, 1)) }
    \cup NearEpsilonSamples

PointSamples ==
    { V(0, 0, 0), V(1, 0, 0), V(1, 2, 3), Vec3(I(-2), Q(1, 2), I(5)),
      V(0, -1, 1) }

\* A chain of k nodes, 1 the root and k the deepest, node i with transform
\* ts[i] and object fields leaf (for node k) or a plain Container.
ChainHeap(ts, leaf) ==
    [i \in DOMAIN ts |->
        [(IF i = Len(ts) THEN leaf ELSE [GameObject EXCEPT !.kind = "Container"])
            EXCEPT !.position = ts[i].position,
                   !.rotation = ts[i].rotation,
                   !.scale = ts[i].scale,
                   !.parent = IF i = 1 THEN NoNode ELSE i - 1,
                   !.children = IF i = Len(ts) THEN <<>> ELSE <<i + 1>>]]

\* the chains of 1 .. MaxDepth + 1 nodes; at most one node has a near-Epsilon
\* scale, which keeps the products of denominators within TLC's integers
ChainTransforms ==
    UNION { { ts \in [1..k -> TransformSamples] :
                Cardinality({i \in 1..k : ts[i] \in NearEpsilonSamples}) <= 1 } :
            k \in 1..(MaxDepth + 1) }

\* every scale component on the chain of n is one getPointInLocalSpace divides by
ScalesInvertible(n) ==
    \A i \in 1..Len(Chain(n)) :
        LET s == heap[Chain(n)[i]].scale
        IN  /\ RGt(RAbs(s.x), Epsilon)
            /\ RGt(RAbs(s.y), Epsilon)
            /\ RGt(RAbs(s.z), Epsilon)

-----------------------------------------------------------------------------
(* The round trip world -> local of a point                                *)

None == "none"

InitTransform ==
    /\ keys = {}
    /\ playerVelocityY = I(0)
    /\ lastTime = 0
    /\ \E ts \in ChainTransforms, p \in PointSamples :
          /\ heap = ChainHeap(ts, GameObject)
          /\ call = [node |-> Len(ts), p |-> p]
    /\ objects = <<>>
    /\ physicsObjects = <<>>
    /\ camera = CameraInit
    /\ targetAngle = DoorAngles
    /\ currentAngle = DoorAngles
    /\ gl = GLInit
    /\ drawLog = <<>>
    /\ pc = "start"
    /\ ret = [world |-> None, local |-> None]

\* w = node->getPointInWorldSpace(p)
ToWorld ==
    /\ pc = "start"
    /\ ret' = [ret EXCEPT !.world = getPointInWorldSpace(call.node, call.p)]
    /\ pc' = "world"
    /\ UNCHANGED <<keys, playerVelocityY, lastTime, heap, objects,
                   physicsObjects, camera, targetAngle, currentAngle, gl,
                   drawLog, call>>

\* l = node->getPointInLocalSpace(w)
ToLocal ==
    /\ pc = "world"
    /\ ret' = [ret EXCEPT !.local = getPointInLocalSpace(call.node, ret.world)]
    /\ pc' = "local"
    /\ UNCHANGED <<keys, playerVelocityY, lastTime, heap, objects,
                   physicsObjects, camera, targetAngle, currentAngle, gl,
                   drawLog, call>>

NextTransform == ToWorld \/ ToLocal

SpecTransform == InitTransform /\ [][NextTransform]_vars

\* C2 as stated: localPoint(worldPoint(p)) = p for every node, point,
\* position, rotation and scale.
C2_RoundTripAnyScale ==
    pc = "local" => ret.local = call.p

\* C2, amended: localPoint(worldPoint(p)) = p for every node at any depth and
\* every point p, whenever every scale component of the node and of its
\* ancestors has magnitude above 1e-4.
C2_RoundTrip ==
    (pc = "local" /\ ScalesInvertible(call.node)) => ret.local = call.p

\* C2 witness: a node two levels below the root, rotated and scaled parents,
\* the point moved by the conversion and brought back by the inverse.
C2_Witness ==
    /\ pc = "local"
    /\ Len(Chain(call.node)) = 3
    /\ ScalesInvertible(call.node)
    /\ \A i \in 1..3 : heap[i].rotation # V(0, 0, 0)
    /\ \E i \in 1..3 : heap[i].scale.x = Q(1, 5000)
    /\ ret.world # call.p
    /\ ret.local = call.p

-----------------------------------------------------------------------------
(* GameObject::rotateAround                                                *)

\* Rodrigues' formula for the vector r about the axis a by the angle whose
\* cosine and sine are c and s (t = 1 - c)
Rodrigues(r, a, c, s, t) ==
    LET d == VDot(a, r)
    IN  Vec3(RAdd(RAdd(RMul(RMul(t, d), a.x), RMul(c, r.x)),
                  RMul(s, RSub(RMul(a.y, r.z), RMul(a.z, r.y)))),
             RAdd(RAdd(RMul(RMul(t, d), a.y), RMul(c, r.y)),
                  RMul(s, RSub(RMul(a.z, r.x), RMul(a.x, r.z)))),
             RAdd(RAdd(RMul(RMul(t, d), a.z), RMul(c, r.z)),
                  RMul(s, RSub(RMul(a.x, r.y), RMul(a.y, r.x)))))

\* rotateAround without the division of the axis by its length
rotateAround_NoNormalize(o, pivot, axis, angle) ==
    LET c == Cos(angle)
        s == Sin(angle)
        t == RSub(I(1), c)
        len == RSqrt(VDot(axis, axis))
        new == Rodrigues(VSub(o.position, pivot), axis, c, s, t)
    IN  IF RLt(len, Epsilon) THEN o
        ELSE [o EXCEPT !.position = VAdd(pivot, new),
                       !.rotation = Vec3(RAdd(o.rotation.x, RMul(angle, axis.x)),
                                         RAdd(o.rotation.y, RMul(angle, axis.y)),
                                         RAdd(o.rotation.z, RMul(angle, axis.z)))]

\* rotateAround taking the pivot for a world point: it is brought into the
\* frame of o's parent before the rotation
rotateAround_WorldPivot(o, pivot, axis, angle) ==
    LET c == Cos(angle)
        s == Sin(angle)
        t == RSub(I(1), c)
        len == RSqrt(VDot(axis, axis))
        a == Vec3(RDiv(axis.x, len), RDiv(axis.y, len), RDiv(axis.z, len))
        pv == IF o.parent # NoNode THEN getPointInLocalSpace(o.parent, pivot)
              ELSE pivot
        new == Rodrigues(VSub(o.position, pv), a, c, s, t)
    IN  IF RLt(len, Epsilon) THEN o
        ELSE [o EXCEPT !.position = VAdd(pv, new),
                       !.rotation = Vec3(RAdd(o.rotation.x, RMul(angle, a.x)),
                                         RAdd(o.rotation.y, RMul(angle, a.y)),
                                         RAdd(o.rotation.z, RMul(angle, a.z)))]

\* GameObject::rotateAround on the object o: the object afterwards
rotateAround(o, pivot, axis, angle) ==
    LET c == Cos(angle)
        s == Sin(angle)
        t == RSub(I(1), c)
        len == RSqrt(VDot(axis, axis))
        a == Vec3(RDiv(axis.x, len), RDiv(axis.y, len), RDiv(axis.z, len))
        new == Rodrigues(VSub(o.position, pivot), a, c, s, t)
    IN  IF RLt(len, Epsilon) THEN o
        ELSE [o EXCEPT !.position = VAdd(pivot, new),
                       !.rotation = Vec3(RAdd(o.rotation.x, RMul(angle, a.x)),
                                         RAdd(o.rotation.y, RMul(angle, a.y)),
                                         RAdd(o.rotation.z, RMul(angle, a.z)))]

\* axes whose length is rational; the last two are shorter than Epsilon
AxisSamples ==
    { V(0, 1, 0), V(0, -1, 0), V(0, 0, 2), V(3, 4, 0), V(1, 2, 2), V(2, -3, 6),
      V(0, 0, 0), Vec3(Q(1, 20000), I(0), I(0)) }

AngleSamples == { I(0), I(90), I(180), I(270), I(-90), I(450) }

PivotSamples == { V(0, 0, 0), V(1, 0, 0), Vec3(Q(-71, 20), I(0), I(0)), V(2, -1, 3) }

InitOrbit ==
    /\ keys = {}
    /\ playerVelocityY = I(0)
    /\ lastTime = 0
    /\ \E p \in PointSamples, pv \in PivotSamples, ax \in AxisSamples,
          an \in AngleSamples :
          /\ heap = <<[GameObject EXCEPT !.position = p]>>
          /\ call = [pivot |-> pv, axis |-> ax, angle |-> an]
    /\ objects = <<>>
    /\ physicsObjects = <<>>
    /\ camera = CameraInit
    /\ targetAngle = DoorAngles
    /\ currentAngle = DoorAngles
    /\ gl = GLInit
    /\ drawLog = <<>>
    /\ pc = "start"
    /\ ret = [before |-> None]

\* obj->rotateAround(px, py, pz, ax, ay, az, angle)
Orbit ==
    /\ pc = "start"
    /\ ret' = [before |-> heap[1].position]
    /\ heap' = [heap EXCEPT
                  ![1] = rotateAround(heap[1], call.pivot, call.axis, call.angle)]
    /\ pc' = "done"
    /\ UNCHANGED <<keys, playerVelocityY, lastTime, objects, physicsObjects,
                   camera, targetAngle, currentAngle, gl, drawLog, call>>

NextOrbit == Orbit

SpecOrbit == InitOrbit /\ [][NextOrbit]_vars

\* C3: for any pivot, any axis and any angle, rotateAround leaves the
\* (squared) distance between the node's position and the pivot unchanged.
C3_OrbitKeepsDistance ==
    pc = "done" =>
        DistSq(heap[1].position, call.pivot) = DistSq(ret.before, call.pivot)

\* C3 witness: a quarter turn about the oblique axis (1,2,2) moved the node.
C3_Witness ==
    /\ pc = "done"
    /\ call.axis = V(1, 2, 2)
    /\ call.angle = I(90)
    /\ heap[1].position # ret.before
    /\ DistSq(ret.before, call.pivot) # I(0)

-----------------------------------------------------------------------------
(* buildShadowMatrix (main.cpp)                                            *)

\* fPlane . fLightPos
ShadowDot(fLightPos, fPlane) ==
    RAdd(RAdd(RMul(fPlane[1], fLightPos[1]), RMul(fPlane[2], fLightPos[2])),
         RAdd(RMul(fPlane[3], fLightPos[3]), RMul(fPlane[4], fLightPos[4])))

\* buildShadowMatrix filling the array row by row: entry (i, j) at 4 i + j
buildShadowMatrix_RowMajor(fLightPos, fPlane) ==
    LET dot == ShadowDot(fLightPos, fPlane)
    IN  [k \in 1..16 |->
            LET i == ((k - 1) \div 4) + 1
                j == ((k - 1) % 4) + 1
            IN  RSub(IF i = j THEN dot ELSE I(0), RMul(fLightPos[i], fPlane[j]))]

\* buildShadowMatrix with fMatrix[10] written without dot
buildShadowMatrix_NoDotAt10(fLightPos, fPlane) ==
    LET dot == ShadowDot(fLightPos, fPlane)
        L == fLightPos
        P == fPlane
        zero == I(0)
    IN  << RSub(dot, RMul(L[1], P[1])), RSub(zero, RMul(L[2], P[1])),
           RSub(zero, RMul(L[3], P[1])), RSub(zero, RMul(L[4], P[1])),
           RSub(zero, RMul(L[1], P[2])), RSub(dot, RMul(L[2], P[2])),
           RSub(zero, RMul(L[3], P[2])), RSub(zero, RMul(L[4], P[2])),
           RSub(zero, RMul(L[1], P[3])), RSub(zero, RMul(L[2], P[3])),
           RSub(zero, RMul(L[3], P[3])), RSub(zero, RMul(L[4], P[3])),
           RSub(zero, RMul(L[1], P[4])), RSub(zero, RMul(L[2], P[4])),
           RSub(zero, RMul(L[3], P[4])), RSub(dot, RMul(L[4], P[4])) >>

\* buildShadowMatrix: the 16 floats of fMatrix, fMatrix[k] at position k + 1
\* (column-major: fMatrix[i + 4 j] is row i, column j)
buildShadowMatrix(fLightPos, fPlane) ==
    LET dot == ShadowDot(fLightPos, fPlane)
        L == fLightPos
        P == fPlane
        zero == I(0)
    IN  << RSub(dot, RMul(L[1], P[1])),     \* fMatrix[0]
           RSub(zero, RMul(L[2], P[1])),    \* fMatrix[1]
           RSub(zero, RMul(L[3], P[1])),    \* fMatrix[2]
           RSub(zero, RMul(L[4], P[1])),    \* fMatrix[3]
           RSub(zero, RMul(L[1], P[2])),    \* fMatrix[4]
           RSub(dot, RMul(L[2], P[2])),     \* fMatrix[5]
           RSub(zero, RMul(L[3], P[2])),    \* fMatrix[6]
           RSub(zero, RMul(L[4], P[2])),    \* fMatrix[7]
           RSub(zero, RMul(L[1], P[3])),    \* fMatrix[8]
           RSub(zero, RMul(L[2], P[3])),    \* fMatrix[9]
           RSub(dot, RMul(L[3], P[3])),     \* fMatrix[10]
           RSub(zero, RMul(L[4], P[3])),    \* fMatrix[11]
           RSub(zero, RMul(L[1], P[4])),    \* fMatrix[12]
           RSub(zero, RMul(L[2], P[4])),    \* fMatrix[13]
           RSub(zero, RMul(L[3], P[4])),    \* fMatrix[14]
           RSub(dot, RMul(L[4], P[4])) >>   \* fMatrix[15]

\* row i, column j (1..4) of a column-major matrix
Elem(m, i, j) == m[i + 4 * (j - 1)]

\* glMultMatrixf(m) then a vertex v: the homogeneous vector m v
MatVec(m, v) ==
    [i \in 1..4 |->
        RAdd(RAdd(RMul(Elem(m, i, 1), v[1]), RMul(Elem(m, i, 2), v[2])),
             RAdd(RMul(Elem(m, i, 3), v[3]), RMul(Elem(m, i, 4), v[4])))]

\* a homogeneous vector multiplied by a number
VecScale(k, v) == [i \in 1..4 |-> RMul(k, v[i])]

\* determinant of the 3x3 matrix left of m without row 1 and column c,
\* its columns being a, b, c3
Det3(m, a, b, c3) ==
    RAdd(RSub(RMul(Elem(m, 2, a),
                   RSub(RMul(Elem(m, 3, b), Elem(m, 4, c3)),
                        RMul(Elem(m, 3, c3), Elem(m, 4, b)))),
              RMul(Elem(m, 2, b),
                   RSub(RMul(Elem(m, 3, a), Elem(m, 4, c3)),
                        RMul(Elem(m, 3, c3), Elem(m, 4, a))))),
         RMul(Elem(m, 2, c3),
              RSub(RMul(Elem(m, 3, a), Elem(m, 4, b)),
                   RMul(Elem(m, 3, b), Elem(m, 4, a)))))

\* determinant of a 4x4 matrix, expanded along its first row
Det4(m) ==
    RSub(RAdd(RSub(RMul(Elem(m, 1, 1), Det3(m, 2, 3, 4)),
                   RMul(Elem(m, 1, 2), Det3(m, 1, 3, 4))),
              RMul(Elem(m, 1, 3), Det3(m, 1, 2, 4))),
         RMul(Elem(m, 1, 4), Det3(m, 1, 2, 3)))

H(x, y, z, w) == <<I(x), I(y), I(z), I(w)>>

\* the first is display()'s lightPos; the last is parallel to the ground
LightSamples ==
    { H(1, 1, 1, 0), H(2, 2, 2, 0), H(0, 3, 1, 1), H(1, 2, -1, 1),
      H(-1, -2, 0, 0), H(1, 0, 0, 0) }

\* the first is display()'s groundPlane
PlaneSamples == { H(0, 1, 0, 0), H(0, 1, 0, -1), H(1, 1, 0, 2), H(0, 0, 1, 0) }

HPointSamples ==
    { H(0, 0, 0, 1), H(0, 1, 0, 1), H(1, 2, 3, 1), H(-2, 5, 1, 1),
      H(3, -1, 2, 1), <<Q(1, 2), I(4), Q(-3, 2), I(1)>> }

InitShadow ==
    /\ keys = {}
    /\ playerVelocityY = I(0)
    /\ lastTime = 0
    /\ \E l \in LightSamples, pl \in PlaneSamples, v \in HPointSamples :
          call = [fLightPos |-> l, fPlane |-> pl, pt |-> v]
    /\ heap = <<>>
    /\ objects = <<>>
    /\ physicsObjects = <<>>
    /\ camera = CameraInit
    /\ targetAngle = DoorAngles
    /\ currentAngle = DoorAngles
    /\ gl = GLInit
    /\ drawLog = <<>>
    /\ pc = "start"
    /\ ret = [fMatrix |-> None, once |-> None, twice |-> None]

\* buildShadowMatrix(shadowMat, lightPos, groundPlane)
BuildShadow ==
    /\ pc = "start"
    /\ ret' = [ret EXCEPT !.fMatrix = buildShadowMatrix(call.fLightPos, call.fPlane)]
    /\ pc' = "built"
    /\ UNCHANGED <<keys, playerVelocityY, lastTime, heap, objects,
                   physicsObjects, camera, targetAngle, currentAngle, gl,
                   drawLog, call>>

\* the matrix applied to the point
ProjectOnce ==
    /\ pc = "built"
    /\ ret' = [ret EXCEPT !.once = MatVec(ret.fMatrix, call.pt)]
    /\ pc' = "once"
    /\ UNCHANGED <<keys, playerVelocityY, lastTime, heap, objects,
                   physicsObjects, camera, targetAngle, currentAngle, gl,
                   drawLog, call>>

\* the matrix applied to the projected point
ProjectTwice ==
    /\ pc = "once"
    /\ ret' = [ret EXCEPT !.twice = MatVec(ret.fMatrix, ret.once)]
    /\ pc' = "twice"
    /\ UNCHANGED <<keys, playerVelocityY, lastTime, heap, objects,
                   physicsObjects, camera, targetAngle, currentAngle, gl,
                   drawLog, call>>

NextShadow == BuildShadow \/ ProjectOnce \/ ProjectTwice

SpecShadow == InitShadow /\ [][NextShadow]_vars

\* C4 as stated: for a light that is not parallel to the plane (dot # 0) the
\* matrix has determinant 0 and applied twice to a point gives the very
\* vector it gives applied once.
C4_SingularAndIdempotent ==
    (pc = "twice" /\ ShadowDot(call.fLightPos, call.fPlane) # I(0)) =>
        /\ Det4(ret.fMatrix) = I(0)
        /\ ret.twice = ret.once

\* C4, amended: for any light L and plane the matrix has determinant 0, and
\* applied twice to a point it gives dot times what it gives applied once
\* (dot = plane . L): the same homogeneous point when dot # 0, and the same
\* vector when dot = 1, as for display()'s light (1,1,1,0) and ground plane
\* (0,1,0,0).
C4_SingularAndProjective ==
    pc = "twice" =>
        /\ Det4(ret.fMatrix) = I(0)
        /\ ret.twice = VecScale(ShadowDot(call.fLightPos, call.fPlane), ret.once)
        /\ ShadowDot(call.fLightPos, call.fPlane) = I(1) => ret.twice = ret.once

\* C4 witness: dot is neither 0 nor 1, the point is off the plane and is
\* moved by the projection, and the second application scales the first.
C4_Witness ==
    /\ pc = "twice"
    /\ ShadowDot(call.fLightPos, call.fPlane) \notin {I(0), I(1)}
    /\ ret.once # call.pt
    /\ ret.once # H(0, 0, 0, 0)
    /\ ret.twice # ret.once

\* C4 witness with display()'s light and plane: idempotent on the nose
C4_WitnessDisplay ==
    /\ pc = "twice"
    /\ call.fLightPos = H(1, 1, 1, 0)
    /\ call.fPlane = H(0, 1, 0, 0)
    /\ ret.once # call.pt
    /\ ret.twice = ret.once

-----------------------------------------------------------------------------
(* isOverlap (main.cpp)                                                    *)

PLAYER_HEIGHT == Q(3, 2)

PLAYER_RADIUS == Q(3, 10)

\* the 0.001f below which isOverlap takes a scale component for 1
OverlapEpsilon == Q(1, 1000)

\* (std::abs(s) > 0.001f) ? (1.0f / s) : 1.0f
PlayerScale(s) == IF RGt(RAbs(s), OverlapEpsilon) THEN RDiv(I(1), s) ELSE I(1)

\* PLAYER_RADIUS * std::max(std::abs(sx), std::abs(sz))
LocalRadius(n) ==
    RMul(PLAYER_RADIUS, RMax(RAbs(PlayerScale(heap[n].scale.x)),
                             RAbs(PlayerScale(heap[n].scale.z))))

\* PLAYER_HEIGHT * std::abs(sy)
LocalHeight(n) == RMul(PLAYER_HEIGHT, RAbs(PlayerScale(heap[n].scale.y)))

\* isOverlap comparing the world y of the point instead of localPos.y
isOverlap_WorldY(box, pt) ==
    LET localPos == getPointInLocalSpace(box, pt)
        hw == RDiv(heap[box].width, I(2))
        hh == RDiv(heap[box].height, I(2))
        hd == RDiv(heap[box].depth, I(2))
        localRadius == LocalRadius(box)
        localHeight == LocalHeight(box)
    IN  IF RLt(localPos.x, RSub(RNeg(hw), localRadius))
           \/ RGt(localPos.x, RAdd(hw, localRadius)) THEN FALSE
        ELSE IF RLt(localPos.z, RSub(RNeg(hd), localRadius))
           \/ RGt(localPos.z, RAdd(hd, localRadius)) THEN FALSE
        ELSE RLt(RSub(pt.y, localHeight), hh) /\ RGt(pt.y, RNeg(hh))

\* isOverlap without the rejection on Z
isOverlap_NoZ(box, pt) ==
    LET localPos == getPointInLocalSpace(box, pt)
        hw == RDiv(heap[box].width, I(2))
        hh == RDiv(heap[box].height, I(2))
        localRadius == LocalRadius(box)
        localHeight == LocalHeight(box)
    IN  IF RLt(localPos.x, RSub(RNeg(hw), localRadius))
           \/ RGt(localPos.x, RAdd(hw, localRadius)) THEN FALSE
        ELSE RLt(RSub(localPos.y, localHeight), hh) /\ RGt(localPos.y, RNeg(hh))

\* isOverlap accepting vertical spans that touch the box's range at an end
isOverlap_ClosedY(box, pt) ==
    LET localPos == getPointInLocalSpace(box, pt)
        hw == RDiv(heap[box].width, I(2))
        hh == RDiv(heap[box].height, I(2))
        hd == RDiv(heap[box].depth, I(2))
        localRadius == LocalRadius(box)
        localHeight == LocalHeight(box)
    IN  IF RLt(localPos.x, RSub(RNeg(hw), localRadius))
           \/ RGt(localPos.x, RAdd(hw, localRadius)) THEN FALSE
        ELSE IF RLt(localPos.z, RSub(RNeg(hd), localRadius))
           \/ RGt(localPos.z, RAdd(hd, localRadius)) THEN FALSE
        ELSE ~RGt(RSub(localPos.y, localHeight), hh) /\ ~RLt(localPos.y, RNeg(hh))

\* isOverlap(box, px, py, pz)
isOverlap(box, pt) ==
    LET localPos == getPointInLocalSpace(box, pt)
        hw == RDiv(heap[box].width, I(2))
        hh == RDiv(heap[box].height, I(2))
        hd == RDiv(heap[box].depth, I(2))
        localRadius == LocalRadius(box)
        localHeight == LocalHeight(box)
    IN  IF RLt(localPos.x, RSub(RNeg(hw), localRadius))
           \/ RGt(localPos.x, RAdd(hw, localRadius)) THEN FALSE
        ELSE IF RLt(localPos.z, RSub(RNeg(hd), localRadius))
           \/ RGt(localPos.z, RAdd(hd, localRadius)) THEN FALSE
        ELSE RLt(RSub(localPos.y, localHeight), hh) /\ RGt(localPos.y, RNeg(hh))

\* a scale with a zero component and one between isOverlap's and
\* getPointInLocalSpace's thresholds
BoxNearEpsilon ==
    { Transform(V(1, 0, 0), V(0, 0, 0), Vec3(I(0), I(1), Q(1, 2000))) }

\* transforms of the box and of the nodes above it
BoxTransforms ==
    { Transform(V(0, 0, 0), V(0, 0, 0), V(1, 1, 1)),
      Transform(V(1, 2, 3), V(90, 0, 0), V(2, 1, 1)),
      Transform(V(-1, 0, 2), V(0, 90, 270), Vec3(I(1), Q(1, 2), I(-1))) }
    \cup BoxNearEpsilon

\* at most one node has a near-epsilon scale, which keeps the products of
\* denominators within TLC's integers
BoxChains ==
    UNION { { ts \in [1..k -> BoxTransforms] :
                Cardinality({i \in 1..k : ts[i] \in BoxNearEpsilon}) <= 1 } :
            k \in 1..(MaxDepth + 1) }

\* the second is the door's box
BoxSamples ==
    { CollisionBox(I(2), I(2), I(2)), CollisionBox(Q(3, 2), Q(21, 10), Q(1, 10)) }

\* the last two touch the scenario box's vertical range from below and above
QuerySamples ==
    { Vec3(Q(1, 2), I(1), I(0)), V(5, 1, 0), V(1, 2, 3), V(0, 3, 0),
      Vec3(I(-1), Q(1, 2), I(2)), V(0, -1, 0), Vec3(I(0), Q(5, 2), I(0)) }

ShiftSamples == { V(1, 0, 0), V(0, -2, 3), Vec3(Q(1, 2), Q(1, 2), Q(-1, 2)) }

InitCollide ==
    /\ keys = {}
    /\ playerVelocityY = I(0)
    /\ lastTime = 0
    /\ \E ts \in BoxChains, b \in BoxSamples, q \in QuerySamples :
          /\ heap = ChainHeap(ts, b)
          /\ call = [box |-> Len(ts), pt |-> q, moves |-> 0]
    /\ objects = <<>>
    /\ physicsObjects = <<>>
    /\ camera = CameraInit
    /\ targetAngle = DoorAngles
    /\ currentAngle = DoorAngles
    /\ gl = GLInit
    /\ drawLog = <<>>
    /\ pc = "start"
    /\ ret = [before |-> None, after |-> None]

\* isOverlap(box, pt) on the scene as built
OverlapBefore ==
    /\ pc = "start"
    /\ ret' = [ret EXCEPT !.before = isOverlap(call.box, call.pt)]
    /\ pc' = "queried"
    /\ UNCHANGED <<keys, playerVelocityY, lastTime, heap, objects,
                   physicsObjects, camera, targetAngle, currentAngle, gl,
                   drawLog, call>>

\* The box and the query point are translated by the same world vector v:
\* setPosition on the root of the box's chain (the box itself when it has no
\* parent) moves the box by v in the world.
TranslateBoth(v) ==
    /\ pc = "queried"
    /\ call.moves < MaxMoves
    /\ heap' = [heap EXCEPT ![1].position = VAdd(heap[1].position, v)]
    /\ call' = [call EXCEPT !.pt = VAdd(call.pt, v), !.moves = call.moves + 1]
    /\ UNCHANGED <<keys, playerVelocityY, lastTime, objects, physicsObjects,
                   camera, targetAngle, currentAngle, gl, drawLog, pc, ret>>

\* isOverlap(box, pt + v) on the translated scene
OverlapAfter ==
    /\ pc = "queried"
    /\ call.moves > 0
    /\ ret' = [ret EXCEPT !.after = isOverlap(call.box, call.pt)]
    /\ pc' = "requeried"
    /\ UNCHANGED <<keys, playerVelocityY, lastTime, heap, objects,
                   physicsObjects, camera, targetAngle, currentAngle, gl,
                   drawLog, call>>

NextCollide ==
    \/ OverlapBefore
    \/ \E v \in ShiftSamples : TranslateBoth(v)
    \/ OverlapAfter

SpecCollide == InitCollide /\ [][NextCollide]_vars

\* C5: translating the collision box (at any depth, with any rotation and
\* scale) by a world vector v and querying p + v gives the boolean that
\* querying p against the untranslated box gave.
C5_OverlapTranslationInvariant ==
    pc = "requeried" => ret.after = ret.before

\* C5 witness: a box two levels deep, under rotated parents, overlapped by the
\* point before and after two translations.
C5_Witness ==
    /\ pc = "requeried"
    /\ call.moves = 2
    /\ Len(heap) = 3
    /\ heap[1].rotation # V(0, 0, 0)
    /\ heap[3].rotation # V(0, 0, 0)
    /\ ret.before = TRUE
    /\ ret.after = TRUE

\* C5 witness of the negative answer
C5_WitnessMiss ==
    /\ pc = "requeried"
    /\ Len(heap) = 3
    /\ ret.before = FALSE
    /\ ret.after = FALSE

\* the box of the scenarios: no parent, at the origin, dimensions (2,2,2),
\* no rotation, scale (1,1,1)
ScenarioBox ==
    /\ Len(heap) = 1
    /\ heap[1] = CollisionBox(I(2), I(2), I(2))

\* the point is outside the box's X or Z range inflated by the local radius
OutsideXZ(box, pt) ==
    LET l == getPointInLocalSpace(box, pt)
    IN  \/ RGt(RAbs(l.x), RAdd(RDiv(heap[box].width, I(2)), LocalRadius(box)))
        \/ RGt(RAbs(l.z), RAdd(RDiv(heap[box].depth, I(2)), LocalRadius(box)))

\* C6: against the scenario box, with radius 0.3 and height 1.5, isOverlap
\* is true for (0.5, 1.0, 0) and false for (5, 1.0, 0); and for any box and
\* point it is false whenever |localX| > hw + localRadius or
\* |localZ| > hd + localRadius, whatever the Y coordinate.
C6_OverlapScenarios ==
    /\ (pc = "queried" /\ call.moves = 0 /\ ScenarioBox) =>
          /\ call.pt = Vec3(Q(1, 2), I(1), I(0)) => ret.before = TRUE
          /\ call.pt = V(5, 1, 0) => ret.before = FALSE
    /\ (pc = "queried" /\ call.moves = 0 /\ OutsideXZ(call.box, call.pt)) =>
          ret.before = FALSE
    /\ (pc = "requeried" /\ OutsideXZ(call.box, call.pt)) => ret.after = FALSE

\* C6 witness: the first scenario has been queried
C6_Witness ==
    /\ pc = "queried"
    /\ ScenarioBox
    /\ call.pt = Vec3(Q(1, 2), I(1), I(0))
    /\ PLAYER_RADIUS = Q(3, 10)
    /\ PLAYER_HEIGHT = Q(3, 2)
    /\ ret.before = TRUE

\* C6 witness: the second scenario has been queried
C6_WitnessOutside ==
    /\ pc = "queried"
    /\ ScenarioBox
    /\ call.pt = V(5, 1, 0)
    /\ OutsideXZ(call.box, call.pt)
    /\ ret.before = FALSE

\* C6 witness: a point rejected on Z alone, inside the box's X and Y ranges
C6_WitnessZ ==
    /\ pc = "queried"
    /\ LET l == getPointInLocalSpace(call.box, call.pt)
       IN  /\ ~RGt(RAbs(l.x), RAdd(RDiv(heap[call.box].width, I(2)),
                                   LocalRadius(call.box)))
           /\ RGt(RAbs(l.z), RAdd(RDiv(heap[call.box].depth, I(2)),
                                  LocalRadius(call.box)))
           /\ RLt(RSub(l.y, LocalHeight(call.box)), RDiv(heap[call.box].height, I(2)))
           /\ RGt(l.y, RNeg(RDiv(heap[call.box].height, I(2))))
    /\ ret.before = FALSE

-----------------------------------------------------------------------------
(* The glass doors (main.cpp): leftDoor and rightDoor, children of `door`  *)

Frame == 1        \* the Container `door`
RightDoor == 2
LeftDoor == 3
RightKnob == 4    \* a leaf of rightDoor
LeftKnob == 5     \* a leaf of leftDoor

DoorOf(n) == IF n = LeftDoor THEN "left" ELSE "right"

\* the callbacks' dot: the viewer's offset from the door along the door's
\* forward direction (sin, cos of its real Y rotation)
DoorDot(obj) ==
    LET doorPos == getRealPosition(obj)
        dx == RSub(camera.x, doorPos.x)
        dz == RSub(camera.z, doorPos.z)
        rot == getRealRotation(obj)
    IN  RAdd(RMul(dx, Sin(rot.y)), RMul(dz, Cos(rot.y)))

\* leftDoor's callback testing currentAngle where the code tests targetAngle
leftDoorInteract_TestsCurrent(obj) ==
    IF RGt(RAbs(currentAngle.left), I(1)) THEN I(0)
    ELSE IF RGt(DoorDot(obj), I(0)) THEN I(90) ELSE I(-90)

\* leftDoor's interact callback: the new targetAngle
leftDoorInteract(obj) ==
    IF RGt(RAbs(targetAngle.left), I(1)) THEN I(0)
    ELSE IF RGt(DoorDot(obj), I(0)) THEN I(90) ELSE I(-90)

\* rightDoor's interact callback: the new targetAngleR
rightDoorInteract(obj) ==
    IF RGt(RAbs(targetAngle.right), I(1)) THEN I(0)
    ELSE IF RGt(DoorDot(obj), I(0)) THEN I(-90) ELSE I(90)

\* the doors' update callback without the clamp of the step to |diff|
doorUpdate_NoClamp(o, hinge, current, target, dt) ==
    LET speed == I(120)
        diff == RSub(target, current)
        axis == V(0, 1, 0)
        raw == RMul(speed, dt)
        step == IF RLt(diff, I(0)) THEN RNeg(raw) ELSE raw
    IN  IF RLt(RAbs(diff), I(1))
        THEN IF current # target
             THEN [obj |-> rotateAround(o, hinge, axis, diff), current |-> target]
             ELSE [obj |-> o, current |-> current]
        ELSE [obj |-> rotateAround(o, hinge, axis, step),
              current |-> RAdd(current, step)]

\* The doors' update callbacks, alike but for the hinge: the object and the
\* current angle after a tick of dt seconds.
doorUpdate(o, hinge, current, target, dt) ==
    LET speed == I(120)
        diff == RSub(target, current)
        axis == V(0, 1, 0)
        raw == RMul(speed, dt)
        clamped == IF RGt(raw, RAbs(diff)) THEN RAbs(diff) ELSE raw
        step == IF RLt(diff, I(0)) THEN RNeg(clamped) ELSE clamped
    IN  IF RLt(RAbs(diff), I(1))
        THEN IF current # target
             THEN [obj |-> rotateAround(o, hinge, axis, diff), current |-> target]
             ELSE [obj |-> o, current |-> current]
        ELSE [obj |-> rotateAround(o, hinge, axis, step),
              current |-> RAdd(current, step)]

LeftHinge == Vec3(Q(-71, 20), I(0), I(0))

RightHinge == Vec3(Q(-11, 20), I(0), I(0))

\* `door` as main.cpp places it, and turned a quarter about Y
FrameSamples ==
    { Transform(Vec3(I(-4), Q(6, 5), I(0)), V(0, 0, 0), Vec3(I(1), Q(19, 20), I(1))),
      Transform(V(2, 0, -3), V(0, 90, 0), V(1, 1, 1)) }

\* where the viewer stands (x, z)
ViewerSamples == { <<I(-7), I(5)>>, <<I(-7), I(-5)>>, <<I(9), I(0)>>, <<I(2), I(-3)>> }

\* elapsed times for which 120 dt is a multiple of 90 degrees
DtSamples == { I(0), Q(3, 4), Q(3, 2) }

DoorHeap(f) ==
    << [GameObject EXCEPT !.kind = "Container", !.position = f.position,
                          !.rotation = f.rotation, !.scale = f.scale,
                          !.children = <<RightDoor, LeftDoor>>],
       [GameObject EXCEPT !.kind = "Container", !.parent = Frame,
                          !.position = Vec3(Q(-13, 10), I(0), I(0)),
                          !.interactAction = TRUE, !.children = <<RightKnob>>],
       [GameObject EXCEPT !.kind = "Container", !.parent = Frame,
                          !.position = Vec3(Q(-14, 5), I(0), I(0)),
                          !.interactAction = TRUE, !.children = <<LeftKnob>>],
       [GameObject EXCEPT !.parent = RightDoor,
                          !.position = Vec3(Q(-1, 2), Q(-1, 50), I(0)),
                          !.scale = Vec3(Q(1, 20), Q(7, 10), Q(1, 5))],
       [GameObject EXCEPT !.parent = LeftDoor,
                          !.position = Vec3(Q(1, 2), Q(-1, 50), I(0)),
                          !.scale = Vec3(Q(1, 20), Q(7, 10), Q(1, 5))] >>

InitDoor ==
    /\ keys = {}
    /\ playerVelocityY = I(0)
    /\ lastTime = 0
    /\ \E f \in FrameSamples : heap = DoorHeap(f)
    /\ \E v \in ViewerSamples : camera = [CameraInit EXCEPT !.x = v[1], !.z = v[2]]
    /\ objects = <<Frame>>
    /\ physicsObjects = <<>>
    /\ targetAngle = DoorAngles
    /\ currentAngle = DoorAngles
    /\ gl = GLInit
    /\ drawLog = <<>>
    /\ pc = "idle"
    /\ call = [target |-> NoNode, this |-> NoNode,
               targetBefore |-> DoorAngles, currentBefore |-> DoorAngles]
    /\ ret = <<>>

\* the viewer walks somewhere else
ViewerMoves(v) ==
    /\ pc = "idle"
    /\ camera' = [camera EXCEPT !.x = v[1], !.z = v[2]]
    /\ UNCHANGED <<keys, playerVelocityY, lastTime, heap, objects,
                   physicsObjects, targetAngle, currentAngle, gl, drawLog, pc,
                   call, ret>>

\* checkInteraction has picked n: n->interact().  The angles at the call are
\* kept for comparison.
DoorInteractCall(n) ==
    /\ pc = "idle"
    /\ pc' = "interact"
    /\ call' = [target |-> n, this |-> n,
                targetBefore |-> targetAngle, currentBefore |-> currentAngle]
    /\ ret' = <<>>
    /\ UNCHANGED <<keys, playerVelocityY, lastTime, heap, objects,
                   physicsObjects, camera, targetAngle, currentAngle, gl,
                   drawLog>>

\* GameObject::interact, and the door's callback when it is the one invoked
DoorInteractStep ==
    /\ pc = "interact"
    /\ Interact(call.this)
    /\ targetAngle' =
          IF ~heap[call.this].interactAction THEN targetAngle
          ELSE IF call.this = LeftDoor
          THEN [targetAngle EXCEPT !.left = leftDoorInteract(LeftDoor)]
          ELSE [targetAngle EXCEPT !.right = rightDoorInteract(RightDoor)]
    /\ UNCHANGED <<keys, playerVelocityY, lastTime, heap, objects,
                   physicsObjects, camera, currentAngle, gl, drawLog>>

\* Container::update of `door` with deltaTime dt: its children rightDoor and
\* leftDoor run their update callbacks, in this order.
DoorsUpdate(dt) ==
    /\ pc = "idle"
    /\ LET r == doorUpdate(heap[RightDoor], RightHinge, currentAngle.right,
                           targetAngle.right, dt)
           l == doorUpdate(heap[LeftDoor], LeftHinge, currentAngle.left,
                           targetAngle.left, dt)
       IN  /\ heap' = [heap EXCEPT ![RightDoor] = r.obj, ![LeftDoor] = l.obj]
           /\ currentAngle' = [left |-> l.current, right |-> r.current]
    /\ UNCHANGED <<keys, playerVelocityY, lastTime, objects, physicsObjects,
                   camera, targetAngle, gl, drawLog, pc, call, ret>>

NextDoor ==
    \/ \E v \in ViewerSamples : ViewerMoves(v)
    \/ \E n \in {RightDoor, LeftDoor, RightKnob, LeftKnob} : DoorInteractCall(n)
    \/ DoorInteractStep
    \/ InteractReturn
    \/ \E dt \in DtSamples : DoorsUpdate(dt)

SpecDoor == InitDoor /\ [][NextDoor]_vars

\* interact() has returned after running the callback of door d
DoorToggled(d) ==
    /\ pc = "returned"
    /\ ret # <<>>
    /\ DoorOf(ret[1]) = d

\* C7 as stated: interact() on a door whose target angle is 0 sets the
\* target to 90 degrees; with |targetAngle| > 1 it resets the target to 0.
C7_ToggleTo90 ==
    \A d \in {"left", "right"} :
        DoorToggled(d) =>
            IF RGt(RAbs(call.targetBefore[d]), I(1))
            THEN targetAngle[d] = I(0)
            ELSE targetAngle[d] = I(90)

\* C7, amended: interact() on a door whose target angle is 0 sets the target
\* to 90 or to -90 degrees, according to the side of the door the viewer
\* stands on (leftDoor: 90 if dot > 0, else -90; rightDoor the opposite); a
\* further interact() made while |targetAngle| > 1 resets the target to 0,
\* whatever the door's current swing angle.  The other door is not touched.
C7_TogglePolicy ==
    \A d \in {"left", "right"} :
        DoorToggled(d) =>
            /\ IF RGt(RAbs(call.targetBefore[d]), I(1))
               THEN targetAngle[d] = I(0)
               ELSE /\ call.targetBefore[d] = I(0)
                    /\ targetAngle[d] =
                          IF RGt(DoorDot(ret[1]), I(0)) = (d = "left")
                          THEN I(90) ELSE I(-90)
            /\ \A e \in {"left", "right"} \ {d} :
                  targetAngle[e] = call.targetBefore[e]
            /\ currentAngle = call.currentBefore

\* C7 witness: the closed left door was sent to -90, the viewer being behind it
C7_Witness ==
    /\ DoorToggled("left")
    /\ call.target = LeftKnob
    /\ call.targetBefore.left = I(0)
    /\ currentAngle.left = I(0)
    /\ targetAngle.left = I(-90)

\* C7 witness: the left door sent to +90
C7_WitnessOpen90 ==
    /\ DoorToggled("left")
    /\ call.targetBefore.left = I(0)
    /\ targetAngle.left = I(90)

\* C7 witness: a second interact() resets the target while the door has not
\* begun to swing (current 0), and another while it is fully open
C7_WitnessResetClosed ==
    /\ DoorToggled("right")
    /\ call.targetBefore.right = I(90)
    /\ currentAngle.right = I(0)
    /\ targetAngle.right = I(0)

C7_WitnessResetOpen ==
    /\ DoorToggled("left")
    /\ call.targetBefore.left = I(-90)
    /\ currentAngle.left = I(-90)
    /\ targetAngle.left = I(0)

-----------------------------------------------------------------------------
(* display() and the draw traversals (main.cpp, Container.cpp)             *)

\* The leaves whose drawMesh a draw() call on n reaches, in order:
\* GameObject::draw for a leaf, Container::draw for a Container.
RECURSIVE draw(_), drawEach(_)
draw(n) == IF IsContainer(n) THEN drawEach(heap[n].children) ELSE <<n>>

drawEach(cs) == IF cs = <<>> THEN <<>> ELSE draw(Head(cs)) \o drawEach(Tail(cs))

\* drawOpaqueChildren drawing every leaf below n, transparent or not
drawOpaqueChildren_NoFilter(n) == draw(n)

\* Container::drawOpaqueChildren
RECURSIVE drawOpaqueChildren(_), drawOpaqueEach(_)
drawOpaqueChildren(n) == drawOpaqueEach(heap[n].children)

drawOpaqueEach(cs) ==
    IF cs = <<>> THEN <<>>
    ELSE (IF IsContainer(Head(cs)) THEN drawOpaqueChildren(Head(cs))
          ELSE IF ~isTransparent(Head(cs)) THEN draw(Head(cs))
          ELSE <<>>)
         \o drawOpaqueEach(Tail(cs))

\* Container::drawTransparentChildren
RECURSIVE drawTransparentChildren(_), drawTransparentEach(_)
drawTransparentChildren(n) == drawTransparentEach(heap[n].children)

drawTransparentEach(cs) ==
    IF cs = <<>> THEN <<>>
    ELSE (IF IsContainer(Head(cs)) THEN drawTransparentChildren(Head(cs))
          ELSE IF isTransparent(Head(cs)) THEN draw(Head(cs))
          ELSE <<>>)
         \o drawTransparentEach(Tail(cs))

\* the body of the loop of drawOpaqueObjects for the root obj
OpaqueOf(obj) ==
    IF IsContainer(obj) THEN drawOpaqueChildren(obj)
    ELSE IF ~isTransparent(obj) THEN draw(obj)
    ELSE <<>>

\* the body of the loops of drawTransparentObjects for the root obj
TransparentOf(obj) ==
    IF IsContainer(obj) THEN drawTransparentChildren(obj)
    ELSE IF isTransparent(obj) THEN draw(obj)
    ELSE <<>>

\* the body of the shadow loop of display() for the root obj
ShadowOf(obj) ==
    IF ~isTransparent(obj) /\ heap[obj].castsShadow THEN draw(obj) ELSE <<>>

\* display() running the transparent pass before the shadow pass
StageAfter_TransparentFirst(stage) ==
    CASE stage = "idle" -> "opaque"
      [] stage = "opaque" -> "back"
      [] stage = "back" -> "front"
      [] stage = "front" -> "shadow"
      [] stage = "shadow" -> "blend"
      [] stage = "blend" -> "idle"

\* the order in which display() goes through its stages
StageAfter(stage) ==
    CASE stage = "idle" -> "opaque"
      [] stage = "opaque" -> "shadow"
      [] stage = "shadow" -> "blend"
      [] stage = "blend" -> "back"
      [] stage = "back" -> "front"
      [] stage = "front" -> "idle"

\* an entry of drawLog: a stage begins (node = NoNode), or the leaf `node`
\* emits its geometry under the GL state g
Event(stage, node, g) == [stage |-> stage, node |-> node, gl |-> g]

\* GameObject::draw on each of the leaves in turn: Material::apply switches
\* GL_BLEND by the leaf's alpha, then drawMesh emits the geometry.
RECURSIVE Emit(_, _, _, _)
Emit(log, g, stage, leaves) ==
    IF leaves = <<>> THEN [log |-> log, gl |-> g]
    ELSE LET g1 == [g EXCEPT !.blend = isTransparent(Head(leaves))]
         IN  Emit(Append(log, Event(stage, Head(leaves), g1)), g1, stage,
                  Tail(leaves))

\* the parentless nodes, in order of creation
Roots(h) ==
    LET RECURSIVE From(_)
        From(k) ==
            IF k \notin DOMAIN h THEN <<>>
            ELSE (IF h[k].parent = NoNode THEN <<k>> ELSE <<>>) \o From(k + 1)
    IN  From(1)

\* materials: opaque, or glass (alpha 0.2)
AlphaSamples == { I(1), Q(1, 5) }

RenderScenes ==
    { [n \in DOMAIN t |->
          [t[n] EXCEPT !.diffuseAlpha = al[n], !.castsShadow = cs[n]]] :
        t \in Trees(1..RenderNodes),
        al \in [1..RenderNodes -> AlphaSamples],
        cs \in [1..RenderNodes -> BOOLEAN] }

InitRender ==
    /\ keys = {}
    /\ playerVelocityY = I(0)
    /\ lastTime = 0
    /\ heap \in RenderScenes
    /\ objects = Roots(heap)
    /\ physicsObjects = <<>>
    /\ camera = CameraInit
    /\ targetAngle = DoorAngles
    /\ currentAngle = DoorAngles
    /\ gl = GLInit
    /\ drawLog = <<>>
    /\ pc = "idle"
    /\ call = [i |-> 1]
    /\ ret = <<>>

\* one iteration of the loop of the stage pc, on objects[call.i]
DrawRoot(leaves) ==
    /\ call.i <= Len(objects)
    /\ LET e == Emit(drawLog, gl, pc, leaves)
       IN  /\ drawLog' = e.log
           /\ gl' = e.gl
    /\ call' = [i |-> call.i + 1]
    /\ UNCHANGED <<keys, playerVelocityY, lastTime, heap, objects,
                   physicsObjects, camera, targetAngle, currentAngle, pc,
                   ret>>

\* display() goes from the stage pc to the next, switching GL to g
EnterStage(g) ==
    /\ pc' = StageAfter(pc)
    /\ gl' = g
    /\ drawLog' = IF pc = "idle" THEN <<Event(pc', NoNode, g)>>
                  ELSE IF pc' = "idle" THEN drawLog
                  ELSE Append(drawLog, Event(pc', NoNode, g))
    /\ call' = [i |-> 1]
    /\ UNCHANGED <<keys, playerVelocityY, lastTime, heap, objects,
                   physicsObjects, camera, targetAngle, currentAngle, ret>>

\* display(): the buffers are cleared, drawOpaqueObjects() begins
DisplayBegin ==
    /\ pc = "idle"
    /\ EnterStage(gl)

DrawOpaqueRoot ==
    /\ pc = "opaque"
    /\ DrawRoot(IF call.i <= Len(objects) THEN OpaqueOf(objects[call.i]) ELSE <<>>)

\* glDisable(GL_LIGHTING), glDepthMask(GL_FALSE), glEnable(GL_POLYGON_OFFSET_FILL)
ShadowSetup ==
    /\ pc = "opaque"
    /\ call.i > Len(objects)
    /\ EnterStage([gl EXCEPT !.lighting = FALSE, !.depthMask = FALSE,
                             !.polygonOffset = TRUE])

DrawShadowRoot ==
    /\ pc = "shadow"
    /\ DrawRoot(IF call.i <= Len(objects) THEN ShadowOf(objects[call.i]) ELSE <<>>)

\* glDisable(GL_POLYGON_OFFSET_FILL), glDepthMask(GL_TRUE), glEnable(GL_BLEND),
\* glEnable(GL_LIGHTING)
BlendSetup ==
    /\ pc = "shadow"
    /\ call.i > Len(objects)
    /\ EnterStage([gl EXCEPT !.polygonOffset = FALSE, !.depthMask = TRUE,
                             !.blend = TRUE, !.lighting = TRUE])

\* drawTransparentObjects(): glDepthMask(GL_FALSE), glEnable(GL_CULL_FACE),
\* glCullFace(GL_FRONT)
TransparentSetup ==
    /\ pc = "blend"
    /\ EnterStage([gl EXCEPT !.depthMask = FALSE, !.cullFace = TRUE,
                             !.cullMode = "front"])

DrawBackRoot ==
    /\ pc = "back"
    /\ DrawRoot(IF call.i <= Len(objects) THEN TransparentOf(objects[call.i]) ELSE <<>>)

\* glCullFace(GL_BACK)
FrontSetup ==
    /\ pc = "back"
    /\ call.i > Len(objects)
    /\ EnterStage([gl EXCEPT !.cullMode = "back"])

DrawFrontRoot ==
    /\ pc = "front"
    /\ DrawRoot(IF call.i <= Len(objects) THEN TransparentOf(objects[call.i]) ELSE <<>>)

\* drawTransparentObjects() returning without glDepthMask(GL_TRUE)
DisplayEnd_DepthMaskLeftOff ==
    /\ pc = "front"
    /\ call.i > Len(objects)
    /\ EnterStage([gl EXCEPT !.cullFace = FALSE])

\* glDisable(GL_CULL_FACE), glDepthMask(GL_TRUE), glutSwapBuffers()
DisplayEnd ==
    /\ pc = "front"
    /\ call.i > Len(objects)
    /\ EnterStage([gl EXCEPT !.cullFace = FALSE, !.depthMask = TRUE])

NextRender ==
    \/ DisplayBegin
    \/ DrawOpaqueRoot
    \/ ShadowSetup
    \/ DrawShadowRoot
    \/ BlendSetup
    \/ TransparentSetup
    \/ DrawBackRoot
    \/ FrontSetup
    \/ DrawFrontRoot
    \/ DisplayEnd

SpecRender == InitRender /\ [][NextRender]_vars

\* a frame has been rendered to its end
FrameDone == pc = "idle" /\ drawLog # <<>>

StageOrder == <<"opaque", "shadow", "blend", "back", "front">>

StageRank(stage) == CHOOSE k \in 1..5 : StageOrder[k] = stage

\* the stages begun in the frame, in order
StagesBegun ==
    LET RECURSIVE Of(_)
        Of(k) ==
            IF k > Len(drawLog) THEN <<>>
            ELSE (IF drawLog[k].node = NoNode THEN <<drawLog[k].stage>> ELSE <<>>)
                 \o Of(k + 1)
    IN  Of(1)

\* how many times the leaf n was drawn in the stage
Draws(stage, n) ==
    Cardinality({k \in 1..Len(drawLog) :
                    drawLog[k].stage = stage /\ drawLog[k].node = n})

Leaves == {n \in DOMAIN heap : ~IsContainer(n)}

\* C8: in every frame the stages occur in the one order opaque, shadow,
\* blend setup, transparent back faces, transparent front faces: the log of
\* a frame never goes back to an earlier stage, every draw belongs to a
\* drawing stage that has begun, the stages begun are a prefix of the order
\* ending with the current one, and a finished frame has gone through all
\* five, whatever the scene contains; the blend setup stage begins with
\* alpha blending and lighting enabled.
C8_StagesInFixedOrder ==
    /\ \A k \in 1..Len(drawLog) :
          /\ drawLog[k].stage \in {"opaque", "shadow", "blend", "back", "front"}
          /\ drawLog[k].node # NoNode => drawLog[k].stage # "blend"
          /\ k > 1 => StageRank(drawLog[k - 1].stage) <= StageRank(drawLog[k].stage)
    /\ StagesBegun = SubSeq(StageOrder, 1, Len(StagesBegun))
    /\ pc # "idle" => StagesBegun # <<>> /\ StagesBegun[Len(StagesBegun)] = pc
    /\ FrameDone => StagesBegun = StageOrder
    /\ \A k \in 1..Len(drawLog) :
          (drawLog[k].stage = "blend") =>
              drawLog[k].gl.blend /\ drawLog[k].gl.lighting

\* C8 witness: a finished frame with draws in each of the four drawing stages
C8_Witness ==
    /\ FrameDone
    /\ \A st \in {"opaque", "shadow", "back", "front"} :
          \E k \in 1..Len(drawLog) : drawLog[k].stage = st /\ drawLog[k].node # NoNode

\* C8 witness: a finished frame of a scene with nothing transparent
C8_WitnessNoGlass ==
    /\ FrameDone
    /\ \A n \in DOMAIN heap : ~isTransparent(n)
    /\ StagesBegun = StageOrder

\* C9: in a finished frame every leaf is drawn in the opaque pass exactly
\* once if its material is not transparent and never otherwise, and in each
\* of the two transparent sub-passes exactly once if it is transparent and
\* never otherwise.
C9_PassPartition ==
    FrameDone =>
        \A n \in Leaves :
            /\ Draws("opaque", n) = IF isTransparent(n) THEN 0 ELSE 1
            /\ Draws("back", n) = IF isTransparent(n) THEN 1 ELSE 0
            /\ Draws("front", n) = IF isTransparent(n) THEN 1 ELSE 0

\* C9 witness: a finished frame of a scene where a Container holds a
\* transparent leaf and an opaque leaf
C9_Witness ==
    /\ FrameDone
    /\ \E n \in Leaves, m \in Leaves :
          /\ heap[n].parent # NoNode
          /\ heap[m].parent = heap[n].parent
          /\ isTransparent(n)
          /\ Draws("opaque", n) = 0
          /\ Draws("back", n) = 1
          /\ Draws("front", n) = 1
          /\ ~isTransparent(m)
          /\ Draws("opaque", m) = 1
          /\ Draws("back", m) = 0

\* C9 witness: a finished frame with a transparent leaf two Containers deep
C9_WitnessDeep ==
    /\ FrameDone
    /\ \E n \in Leaves :
          /\ isTransparent(n)
          /\ Len(Chain(n)) = 3
          /\ Draws("back", n) = 1
          /\ Draws("front", n) = 1

\* C10: no leaf whose castsShadow flag is false and no leaf with a
\* transparent material is drawn during the shadow pass, at any depth.
C10_ShadowPassOnlyOpaqueCasters ==
    \A k \in 1..Len(drawLog) :
        (drawLog[k].stage = "shadow" /\ drawLog[k].node # NoNode) =>
            /\ heap[drawLog[k].node].castsShadow
            /\ ~isTransparent(drawLog[k].node)

\* the draws of the frame made in one of the stages
DrawsIn(stages) ==
    {k \in 1..Len(drawLog) : drawLog[k].node # NoNode /\ drawLog[k].stage \in stages}

\* C11: every draw of the shadow pass happens with lighting off, depth
\* writes off and the polygon offset on; every draw of the transparent pass
\* with depth writes off and face culling on; when a frame has ended depth
\* writes are on and polygon offset and face culling are off; and every draw
\* of the opaque pass, in the first frame and in later ones, happens with
\* depth writes on.
C11_RenderStateDiscipline ==
    /\ \A k \in DrawsIn({"shadow"}) :
          /\ ~drawLog[k].gl.lighting
          /\ ~drawLog[k].gl.depthMask
          /\ drawLog[k].gl.polygonOffset
    /\ \A k \in DrawsIn({"back", "front"}) :
          /\ ~drawLog[k].gl.depthMask
          /\ drawLog[k].gl.cullFace
    /\ FrameDone => gl.depthMask /\ ~gl.polygonOffset /\ ~gl.cullFace
    /\ \A k \in DrawsIn({"opaque"}) : drawLog[k].gl.depthMask

\* C11 witness: a frame after the first (blending was left enabled by the
\* frame before) has drawn in the opaque, shadow and transparent passes
C11_Witness ==
    /\ pc = "front"
    /\ drawLog[1].gl.blend
    /\ DrawsIn({"opaque"}) # {}
    /\ DrawsIn({"shadow"}) # {}
    /\ DrawsIn({"back"}) # {}
    /\ DrawsIn({"front"}) # {}

-----------------------------------------------------------------------------
(* update(): one tick of the idle callback (main.cpp)                      *)

GRAVITY == Q(49, 5)

\* Camera::speed
CameraSpeed == Q(1, 10)

\* glutGet(GLUT_ELAPSED_TIME) - lastTime, in tenths of a second
ElapsedSamples == { 1, 2 }

\* checkSceneCollision: the box itself, then the children of a Container
RECURSIVE checkSceneCollision(_, _), checkSceneChildren(_, _)
checkSceneCollision(node, pt) ==
    IF heap[node].kind = "CollisionBox" /\ isOverlap(node, pt) THEN TRUE
    ELSE IF IsContainer(node) THEN checkSceneChildren(heap[node].children, pt)
    ELSE FALSE

checkSceneChildren(cs, pt) ==
    IF cs = <<>> THEN FALSE
    ELSE IF checkSceneCollision(Head(cs), pt) THEN TRUE
    ELSE checkSceneChildren(Tail(cs), pt)

\* isColliding testing the registry entries themselves and never their children
isColliding_NoDescent(pt) ==
    \E k \in 1..Len(physicsObjects) :
        /\ heap[physicsObjects[k]].kind = "CollisionBox"
        /\ isOverlap(physicsObjects[k], pt)

\* isColliding: the loop over physicsObjects
isColliding(pt) ==
    LET RECURSIVE From(_)
        From(k) ==
            IF k > Len(physicsObjects) THEN FALSE
            ELSE IF checkSceneCollision(physicsObjects[k], pt) THEN TRUE
            ELSE From(k + 1)
    IN  From(1)

\* Container::update running the node's own behaviour and not its children's
update_OwnOnly(n) == IF heap[n].updateAction THEN <<n>> ELSE <<>>

\* GameObject::update / Container::update: the nodes whose updateAction
\* runs, in the order the calls are made
RECURSIVE update(_), updateEach(_)
update(n) ==
    (IF heap[n].updateAction THEN <<n>> ELSE <<>>)
    \o (IF IsContainer(n) THEN updateEach(heap[n].children) ELSE <<>>)

updateEach(cs) ==
    IF cs = <<>> THEN <<>> ELSE update(Head(cs)) \o updateEach(Tail(cs))

\* what a tick does is recorded in ret as it happens
TickEvent(ev, node) == [ev |-> ev, node |-> node, dt |-> call.deltaTime]

\* the order of the steps of update()
TickStageAfter_ObjectsFirst(stage) ==
    CASE stage = "idle" -> "objects"
      [] stage = "objects" -> "vertical"
      [] stage = "vertical" -> "moveX"
      [] stage = "moveX" -> "moveZ"
      [] stage = "moveZ" -> "idle"

TickStageAfter(stage) ==
    CASE stage = "idle" -> "vertical"
      [] stage = "vertical" -> "moveX"
      [] stage = "moveX" -> "moveZ"
      [] stage = "moveZ" -> "objects"
      [] stage = "objects" -> "idle"

CameraPos == Vec3(camera.x, camera.y, camera.z)

\* 1. delta time; 2. gravity, vertical movement and the ground check, the
\* clock stopping at `horizon`
TickBeginWithin(e, horizon) ==
    /\ pc = "idle"
    /\ lastTime + e <= horizon
    /\ lastTime' = lastTime + e
    /\ LET deltaTime == Q(e, 10)
           v == RSub(playerVelocityY, RMul(GRAVITY, deltaTime))
           y == RAdd(camera.y, RMul(v, deltaTime))
       IN  /\ call' = [deltaTime |-> deltaTime, i |-> 1]
           /\ IF RLt(y, PLAYER_HEIGHT)
              THEN /\ camera' = [camera EXCEPT !.y = PLAYER_HEIGHT]
                   /\ playerVelocityY' = I(0)
              ELSE /\ camera' = [camera EXCEPT !.y = y]
                   /\ playerVelocityY' = v
           /\ ret' = <<[ev |-> "begin", node |-> NoNode, dt |-> deltaTime]>>
    /\ pc' = TickStageAfter(pc)
    /\ UNCHANGED <<heap, objects, physicsObjects, targetAngle, currentAngle,
                   gl, drawLog, keys>>

TickBegin(e) == TickBeginWithin(e, MaxTime)

\* the vertical collision adding the vertical movement once more
ResolveVertical_PushesOn ==
    /\ pc = "vertical"
    /\ IF isColliding(CameraPos)
       THEN /\ camera' = [camera EXCEPT
                             !.y = RAdd(@, RMul(playerVelocityY, call.deltaTime))]
            /\ playerVelocityY' = I(0)
       ELSE UNCHANGED <<camera, playerVelocityY>>
    /\ ret' = Append(ret, TickEvent("vertical", NoNode))
    /\ pc' = TickStageAfter(pc)
    /\ UNCHANGED <<heap, objects, physicsObjects, targetAngle, currentAngle,
                   gl, drawLog, keys, lastTime, call>>

\* vertical collision with boxes: the vertical movement is taken back
ResolveVertical ==
    /\ pc = "vertical"
    /\ IF isColliding(CameraPos)
       THEN /\ camera' = [camera EXCEPT
                             !.y = RSub(@, RMul(playerVelocityY, call.deltaTime))]
            /\ playerVelocityY' = I(0)
       ELSE UNCHANGED <<camera, playerVelocityY>>
    /\ ret' = Append(ret, TickEvent("vertical", NoNode))
    /\ pc' = TickStageAfter(pc)
    /\ UNCHANGED <<heap, objects, physicsObjects, targetAngle, currentAngle,
                   gl, drawLog, keys, lastTime, call>>

Pressed(k) == IF k \in keys THEN 1 ELSE 0

\* whether update() enters its movement block
Moving == Pressed("d") - Pressed("a") # 0 \/ Pressed("s") - Pressed("w") # 0

effectiveDX == RMul(I(Pressed("w") - Pressed("s")), CameraSpeed)

effectiveDZ == RMul(I(Pressed("d") - Pressed("a")), CameraSpeed)

deltaX == RSub(RMul(effectiveDX, Cos(camera.yaw)), RMul(effectiveDZ, Sin(camera.yaw)))

deltaZ == RAdd(RMul(effectiveDX, Sin(camera.yaw)), RMul(effectiveDZ, Cos(camera.yaw)))

\* Try Move X committing the step without asking isColliding
MoveX_Untested ==
    /\ pc = "moveX"
    /\ LET nextX == RAdd(camera.x, deltaX)
       IN  camera' = IF Moving THEN [camera EXCEPT !.x = nextX] ELSE camera
    /\ call' = [fromX |-> CameraPos, nextX |-> RAdd(camera.x, deltaX)] @@ call
    /\ ret' = Append(ret, TickEvent("moveX", NoNode))
    /\ pc' = TickStageAfter(pc)
    /\ UNCHANGED <<heap, objects, physicsObjects, targetAngle, currentAngle,
                   gl, drawLog, keys, playerVelocityY, lastTime>>

\* Try Move X
MoveX ==
    /\ pc = "moveX"
    /\ LET nextX == RAdd(camera.x, deltaX)
       IN  camera' = IF Moving /\ ~isColliding(Vec3(nextX, camera.y, camera.z))
                     THEN [camera EXCEPT !.x = nextX]
                     ELSE camera
    /\ call' = [fromX |-> CameraPos, nextX |-> RAdd(camera.x, deltaX)] @@ call
    /\ ret' = Append(ret, TickEvent("moveX", NoNode))
    /\ pc' = TickStageAfter(pc)
    /\ UNCHANGED <<heap, objects, physicsObjects, targetAngle, currentAngle,
                   gl, drawLog, keys, playerVelocityY, lastTime>>

\* Try Move Z tested from where the player stood before Try Move X
MoveZ_FromOldX ==
    /\ pc = "moveZ"
    /\ LET nextZ == RAdd(camera.z, deltaZ)
       IN  camera' = IF Moving /\ ~isColliding(Vec3(call.fromX.x, camera.y, nextZ))
                     THEN [camera EXCEPT !.z = nextZ]
                     ELSE camera
    /\ playerVelocityY' = IF " " \in keys THEN I(5) ELSE playerVelocityY
    /\ call' = [fromZ |-> CameraPos, nextZ |-> RAdd(camera.z, deltaZ)] @@ call
    /\ ret' = Append(ret, TickEvent("moveZ", NoNode))
    /\ pc' = TickStageAfter(pc)
    /\ UNCHANGED <<heap, objects, physicsObjects, targetAngle, currentAngle,
                   gl, drawLog, keys, lastTime>>

\* Try Move Z, then the jump key
MoveZ ==
    /\ pc = "moveZ"
    /\ LET nextZ == RAdd(camera.z, deltaZ)
       IN  camera' = IF Moving /\ ~isColliding(Vec3(camera.x, camera.y, nextZ))
                     THEN [camera EXCEPT !.z = nextZ]
                     ELSE camera
    /\ playerVelocityY' = IF " " \in keys THEN I(5) ELSE playerVelocityY
    /\ call' = [fromZ |-> CameraPos, nextZ |-> RAdd(camera.z, deltaZ)] @@ call
    /\ ret' = Append(ret, TickEvent("moveZ", NoNode))
    /\ pc' = TickStageAfter(pc)
    /\ UNCHANGED <<heap, objects, physicsObjects, targetAngle, currentAngle,
                   gl, drawLog, keys, lastTime>>

RECURSIVE Behaviours(_)
Behaviours(ns) ==
    IF ns = <<>> THEN <<>>
    ELSE <<TickEvent("behaviour", Head(ns))>> \o Behaviours(Tail(ns))

\* 4. one iteration of the loop over objects: obj->update(deltaTime)
UpdateRoot ==
    /\ pc = "objects"
    /\ call.i <= Len(objects)
    /\ ret' = ret \o Behaviours(update(objects[call.i]))
    /\ call' = [call EXCEPT !.i = @ + 1]
    /\ UNCHANGED <<heap, objects, physicsObjects, camera, targetAngle,
                   currentAngle, gl, drawLog, pc, keys, playerVelocityY,
                   lastTime>>

\* glutPostRedisplay(): the tick is over
TickEnd ==
    /\ pc = "objects"
    /\ call.i > Len(objects)
    /\ ret' = Append(ret, TickEvent("posted", NoNode))
    /\ pc' = TickStageAfter(pc)
    /\ UNCHANGED <<heap, objects, physicsObjects, camera, targetAngle,
                   currentAngle, gl, drawLog, call, keys, playerVelocityY,
                   lastTime>>

\* GameObject::setUpdateCallback on the nodes of H
WithBehaviours(h, B) ==
    [n \in DOMAIN h |-> [h[n] EXCEPT !.updateAction = (n \in B)]]

\* every scene tree, every assignment of behaviours, nobody at the keyboard
InitUpdate ==
    /\ \E t \in Trees(Nodes), B \in SUBSET Nodes : heap = WithBehaviours(t, B)
    /\ objects = Roots(heap)
    /\ physicsObjects = <<>>
    /\ camera = CameraInit
    /\ targetAngle = DoorAngles
    /\ currentAngle = DoorAngles
    /\ gl = GLInit
    /\ drawLog = <<>>
    /\ pc = "idle"
    /\ call = [i |-> 1]
    /\ ret = <<>>
    /\ keys = {}
    /\ playerVelocityY = I(0)
    /\ lastTime = 0

NextUpdate ==
    \/ \E e \in ElapsedSamples : TickBegin(e)
    \/ ResolveVertical
    \/ MoveX
    \/ MoveZ
    \/ UpdateRoot
    \/ TickEnd

SpecUpdate == InitUpdate /\ [][NextUpdate]_vars

\* a tick has run to its end
TickDone == pc = "idle" /\ ret # <<>>

\* the nodes whose behaviour the tick has run, in order
BehavioursRun ==
    LET RECURSIVE Of(_)
        Of(k) ==
            IF k > Len(ret) THEN <<>>
            ELSE (IF ret[k].ev = "behaviour" THEN <<ret[k].node>> ELSE <<>>)
                 \o Of(k + 1)
    IN  Of(1)

\* the chain root, ..., parent(n), n
RECURSIVE PathTo(_)
PathTo(n) ==
    IF heap[n].parent = NoNode THEN <<n>> ELSE Append(PathTo(heap[n].parent), n)

\* where x stands in the sequence
IndexIn(seq, x) == CHOOSE k \in 1..Len(seq) : seq[k] = x

\* a comes before b in depth-first pre-order: a is an ancestor of b, or
\* where their paths part a's branch was inserted before b's
PreOrderBefore(a, b) ==
    LET pa == PathTo(a)
        pb == PathTo(b)
        Common == {k \in 1..Len(pa) : k <= Len(pb) /\ SubSeq(pa, 1, k) = SubSeq(pb, 1, k)}
        c == Cardinality(Common)
    IN  IF c = Len(pa) THEN Len(pb) > Len(pa)
        ELSE IF c = Len(pb) THEN FALSE
        ELSE IF c = 0 THEN IndexIn(objects, pa[1]) < IndexIn(objects, pb[1])
        ELSE IndexIn(heap[pa[c]].children, pa[c + 1]) <
                 IndexIn(heap[pa[c]].children, pb[c + 1])

\* C12: a finished tick has run the behaviour of every node that has one
\* exactly once and of no other node, each with the tick's elapsed time, and
\* in depth-first pre-order: roots in insertion order, a Container before its
\* children, children in insertion order.
C12_UpdatePreOrderOnce ==
    TickDone =>
        /\ \A n \in DOMAIN heap :
              Cardinality({k \in 1..Len(ret) :
                              ret[k].ev = "behaviour" /\ ret[k].node = n})
                  = IF heap[n].updateAction THEN 1 ELSE 0
        /\ \A k \in 1..Len(ret) : ret[k].dt = call.deltaTime
        /\ \A i \in 1..Len(BehavioursRun), j \in 1..Len(BehavioursRun) :
              i < j => PreOrderBefore(BehavioursRun[i], BehavioursRun[j])

\* C12 witness: a second tick, with another elapsed time than the first, has
\* run behaviours in an order that is not the order of creation
C12_Witness ==
    /\ TickDone
    /\ lastTime = 3
    /\ call.deltaTime = Q(2, 10)
    /\ BehavioursRun = <<1, 2, 4, 3>>

\* C12 witness: a Container without behaviour is passed through to its
\* child, and a sibling leaf without behaviour is skipped
C12_WitnessSkip ==
    /\ TickDone
    /\ Len(objects) = 2
    /\ ~heap[2].updateAction
    /\ heap[3].parent = 2
    /\ heap[4].parent = 2
    /\ BehavioursRun = <<1, 3>>

-----------------------------------------------------------------------------
(* The GLUT main loop: keyboard, idle (update) and display callbacks       *)

\* the movement keys and the jump key
KeySamples == { "w", "d", " " }

\* keyboard(key, x, y) for a movement key
KeyDown(k) ==
    /\ pc = "idle"
    /\ k \notin keys
    /\ keys' = keys \cup {k}
    /\ UNCHANGED <<heap, objects, physicsObjects, camera, targetAngle,
                   currentAngle, gl, drawLog, pc, call, ret, playerVelocityY,
                   lastTime>>

\* keyboardUp(key, x, y)
KeyUp(k) ==
    /\ pc = "idle"
    /\ k \in keys
    /\ keys' = keys \ {k}
    /\ UNCHANGED <<heap, objects, physicsObjects, camera, targetAngle,
                   currentAngle, gl, drawLog, pc, call, ret, playerVelocityY,
                   lastTime>>

\* nodes of the walk-about scene
Room == 1         \* a root Container with a behaviour
Spinner == 2      \* a Cube of Room with a behaviour
WallX == 3        \* a CollisionBox of Room, in the way of a step along +x
WallZ == 4        \* a CollisionBox without parent, in the way of a step along -z
Pane == 5         \* a root Cube of glass
Crate == 6        \* a CollisionBox without parent around the player's start
Post == 7         \* a CollisionBox without parent at the corner of both steps

\* a scene assembled as init() assembles its rooms: the camera starts at
\* (0, 1, 5) looking along -z
WalkHeap ==
    << [GameObject EXCEPT !.kind = "Container", !.updateAction = TRUE,
                          !.children = <<Spinner, WallX>>],
       [GameObject EXCEPT !.parent = Room, !.updateAction = TRUE],
       [CollisionBox(Q(1, 5), I(4), I(4)) EXCEPT
            !.parent = Room, !.position = Vec3(Q(9, 20), I(1), I(5))],
       [CollisionBox(I(4), I(4), Q(1, 5)) EXCEPT
            !.position = Vec3(I(0), I(1), Q(91, 20))],
       [GameObject EXCEPT !.diffuseAlpha = Q(1, 5), !.updateAction = TRUE],
       [CollisionBox(I(1), I(1), I(1)) EXCEPT !.position = V(0, 1, 5)],
       [CollisionBox(Q(1, 5), I(4), Q(1, 5)) EXCEPT
            !.position = Vec3(Q(9, 20), I(1), Q(91, 20))] >>

\* what init() may have pushed on physicsObjects
RegistrySamples ==
    { <<WallX>>, <<Room, WallZ>>, <<Crate>>, <<Post>> }

InitTick ==
    /\ heap = WalkHeap
    /\ objects = <<Room, Pane>>
    /\ physicsObjects \in RegistrySamples
    /\ camera = CameraInit
    /\ targetAngle = DoorAngles
    /\ currentAngle = DoorAngles
    /\ gl = GLInit
    /\ drawLog = <<>>
    /\ pc = "idle"
    /\ call = [i |-> 1]
    /\ ret = <<>>
    /\ keys = {}
    /\ playerVelocityY = I(0)
    /\ lastTime = 0

\* glutMainLoop: one callback at a time, each to its end
NextTick ==
    \/ \E k \in KeySamples : KeyDown(k)
    \/ \E k \in KeySamples : KeyUp(k)
    \/ \E e \in ElapsedSamples : TickBegin(e)
    \/ ResolveVertical
    \/ MoveX
    \/ MoveZ
    \/ UpdateRoot
    \/ TickEnd
    \/ DisplayBegin
    \/ DrawOpaqueRoot
    \/ ShadowSetup
    \/ DrawShadowRoot
    \/ BlendSetup
    \/ TransparentSetup
    \/ DrawBackRoot
    \/ FrontSetup
    \/ DrawFrontRoot
    \/ DisplayEnd

SpecTick == InitTick /\ [][NextTick]_vars

\* positions inside update() and inside display()
TickStages == {"vertical", "moveX", "moveZ", "objects"}

RenderStages == {"opaque", "shadow", "blend", "back", "front"}

CollisionEvents == {"vertical", "moveX", "moveZ"}

\* the tick recorded in ret has run to its end (or there was none yet)
NoTickRunning == ret = <<>> \/ ret[Len(ret)].ev = "posted"

\* C13, the states: no behaviour of a tick runs before the vertical
\* correction and both horizontal moves of that tick are done, and no render
\* pass is under way unless the tick before it has run to its end.
C13_States ==
    /\ \A j \in 1..Len(ret) :
          ret[j].ev = "behaviour" =>
              /\ \A ev \in CollisionEvents : \E i \in 1..(j - 1) : ret[i].ev = ev
              /\ \A i \in (j + 1)..Len(ret) : ret[i].ev \notin CollisionEvents
    /\ pc \in RenderStages => NoTickRunning
    /\ pc \in TickStages => ~NoTickRunning

\* C13, the steps: a step that draws or switches GL state is taken with no
\* tick running and is not part of a tick; a step of a tick draws nothing,
\* leaves the GL state alone and is not taken inside display().
C13_Steps ==
    /\ (drawLog' # drawLog \/ gl' # gl) =>
          /\ NoTickRunning
          /\ ret' = ret
          /\ pc \notin TickStages /\ pc' \notin TickStages
    /\ (ret' # ret \/ camera' # camera \/ playerVelocityY' # playerVelocityY) =>
          /\ drawLog' = drawLog
          /\ gl' = gl
          /\ pc \notin RenderStages /\ pc' \notin RenderStages

\* C13: within a tick, the player's collision resolution (vertical
\* correction, X move, Z move) is complete before any node's behaviour runs;
\* and update and render never interleave: a tick runs to its end before a
\* render pass of the next display begins, and no tick begins inside one.
C13_FrameOrdering == []C13_States /\ [][C13_Steps]_vars

\* C13 witness: the second display is in its transparent pass, after a
\* second tick in which the player moved and three behaviours ran
C13_Witness ==
    /\ pc = "back"
    /\ drawLog[1].gl.blend
    /\ lastTime >= 2
    /\ Len(BehavioursRun) = 3
    /\ camera.x # CameraInit.x
    /\ NoTickRunning

-----------------------------------------------------------------------------
(* isColliding over the physics registry (main.cpp)                        *)

\* where scene assembly puts a node relative to its parent
PlaceSamples == { V(0, 0, 0), V(3, 0, 0) }

\* the points asked about
ProbeSamples == { Vec3(I(0), Q(3, 2), I(0)), Vec3(I(3), Q(3, 2), I(0)),
                  Vec3(I(6), Q(3, 2), I(0)) }

\* a column one unit wide and four high
Column == CollisionBox(I(1), I(4), I(1))

\* the tree t with its leaves in `boxes` made CollisionBoxes and its nodes
\* placed by `at`
Furnish(t, boxes, at) ==
    [n \in DOMAIN t |->
        IF n \in boxes /\ t[n].kind = "Cube"
        THEN [Column EXCEPT !.parent = t[n].parent, !.position = at[n]]
        ELSE [t[n] EXCEPT !.position = at[n]]]

PhysicsScenes ==
    { Furnish(t, boxes, at) :
        t \in Trees(1..SceneNodes),
        boxes \in SUBSET (1..SceneNodes),
        at \in [1..SceneNodes -> PlaceSamples] }

\* registries of up to two distinct nodes, in either order
Registries(h) ==
    {<<>>} \cup { <<a>> : a \in DOMAIN h }
           \cup { ab \in (DOMAIN h) \X (DOMAIN h) : ab[1] # ab[2] }

InitScene ==
    /\ heap \in PhysicsScenes
    /\ objects = Roots(heap)
    /\ physicsObjects \in Registries(heap)
    /\ camera = CameraInit
    /\ targetAngle = DoorAngles
    /\ currentAngle = DoorAngles
    /\ gl = GLInit
    /\ drawLog = <<>>
    /\ pc = "idle"
    /\ call = [pt |-> V(0, 0, 0)]
    /\ ret = <<>>
    /\ keys = {}
    /\ playerVelocityY = I(0)
    /\ lastTime = 0

\* isColliding(px, py, pz)
Probe(pt) ==
    /\ pc = "idle"
    /\ call' = [pt |-> pt]
    /\ ret' = <<isColliding(pt)>>
    /\ pc' = "probed"
    /\ UNCHANGED <<heap, objects, physicsObjects, camera, targetAngle,
                   currentAngle, gl, drawLog, keys, playerVelocityY, lastTime>>

\* the caller goes on, the arguments are gone
ProbeReturn ==
    /\ pc = "probed"
    /\ pc' = "idle"
    /\ call' = [pt |-> V(0, 0, 0)]
    /\ ret' = <<>>
    /\ UNCHANGED <<heap, objects, physicsObjects, camera, targetAngle,
                   currentAngle, gl, drawLog, keys, playerVelocityY, lastTime>>

NextScene ==
    \/ \E pt \in ProbeSamples : Probe(pt)
    \/ ProbeReturn

SpecScene == InitScene /\ [][NextScene]_vars

\* the entries of the registry, as a set
Registered == { physicsObjects[k] : k \in 1..Len(physicsObjects) }

\* the nodes of the chain n, parent(n), ..., root
ChainSet(n) == { Chain(n)[k] : k \in 1..Len(Chain(n)) }

\* the Collision Volumes that are a registry entry or below one
Volumes ==
    { c \in DOMAIN heap :
        heap[c].kind = "CollisionBox" /\ ChainSet(c) \cap Registered # {} }

\* C14: isColliding(p) is true exactly when some CollisionBox that is a
\* registry entry or a descendant of one overlaps p; this is a statement
\* about sets, so neither the order of the registry nor that of children nor
\* any node that is not a CollisionBox or a Container matters.
C14_CollidingIffSomeVolume ==
    pc = "probed" =>
        ret[1] = (\E c \in Volumes : isOverlap(c, call.pt))

\* C14 witness: the only overlapping volume is two Containers below the
\* single registry entry
C14_Witness ==
    /\ pc = "probed"
    /\ ret[1] = TRUE
    /\ \E c \in Volumes :
          /\ isOverlap(c, call.pt)
          /\ Len(Chain(c)) = 3
          /\ physicsObjects = <<Chain(c)[3]>>

\* C14 witness: a Cube and an unregistered CollisionBox stand at the point,
\* and the answer is no
C14_WitnessIgnored ==
    /\ pc = "probed"
    /\ ret[1] = FALSE
    /\ \E a \in Registered : heap[a].kind = "Cube" /\ getRealPosition(a) = V(3, 0, 0)
    /\ \E b \in DOMAIN heap :
          /\ heap[b].kind = "CollisionBox"
          /\ b \notin Volumes
          /\ isOverlap(b, call.pt)

\* C14 witness: the second entry of the registry decides
C14_WitnessSecond ==
    /\ pc = "probed"
    /\ ret[1] = TRUE
    /\ Len(physicsObjects) = 2
    /\ ~checkSceneCollision(physicsObjects[1], call.pt)
    /\ heap[physicsObjects[1]].kind = "CollisionBox"

-----------------------------------------------------------------------------
(* Per-axis movement in update()                                           *)

\* both horizontal moves of the tick have been decided
MovesDecided == pc = "objects"

\* isColliding said no at the point the X move was tried at
FreeX == ~isColliding(Vec3(call.nextX, call.fromX.y, call.fromX.z))

\* isColliding said no at the point the Z move was tried at: the x there is
\* the one after the X decision
FreeZ == ~isColliding(Vec3(call.fromZ.x, call.fromZ.y, call.nextZ))

\* C15: when movement keys are held, the X displacement is committed iff
\* isColliding is false at (x+dx, y, z); then the Z displacement is committed
\* iff isColliding is false at (x', y, z+dz) with x' the x after the X
\* decision; a blocked X move does not stop the Z move and a blocked Z move
\* does not undo the X move.  Without movement keys the position stays.
C15_PerAxisMoves ==
    MovesDecided =>
        /\ call.nextX = RAdd(call.fromX.x, deltaX)
        /\ call.nextZ = RAdd(call.fromZ.z, deltaZ)
        /\ call.fromZ.x = IF Moving /\ FreeX THEN call.nextX ELSE call.fromX.x
        /\ call.fromZ.y = call.fromX.y
        /\ call.fromZ.z = call.fromX.z
        /\ camera.z = IF Moving /\ FreeZ THEN call.nextZ ELSE call.fromZ.z
        /\ camera.x = call.fromZ.x
        /\ camera.y = call.fromZ.y

\* C15 witness: sliding along the wall: X blocked, Z committed
C15_Witness ==
    /\ MovesDecided
    /\ Moving
    /\ deltaX # I(0)
    /\ deltaZ # I(0)
    /\ ~FreeX
    /\ camera.x = call.fromX.x
    /\ FreeZ
    /\ camera.z = call.nextZ
    /\ camera.z # call.fromX.z

\* C15 witness: X committed, Z blocked, X kept
C15_WitnessZBlocked ==
    /\ MovesDecided
    /\ Moving
    /\ deltaX # I(0)
    /\ deltaZ # I(0)
    /\ FreeX
    /\ ~FreeZ
    /\ camera.x = call.nextX
    /\ camera.x # call.fromX.x
    /\ camera.z = call.fromX.z

\* C15 witness: the X move decides the Z move: from the old x the Z step
\* would have been answered otherwise
C15_WitnessXMatters ==
    /\ MovesDecided
    /\ Moving
    /\ call.fromZ.x # call.fromX.x
    /\ FreeZ # ~isColliding(Vec3(call.fromX.x, call.fromZ.y, call.nextZ))

-----------------------------------------------------------------------------
(* checkInteraction: the interaction ray (main.cpp)                        *)

\* closestDist before any leaf has been looked at
InteractionReach == I(10)

\* 1.5f * 1.5f
InteractionRadiusSq == RMul(Q(3, 2), Q(3, 2))

\* the ray of checkInteraction: from the camera along its look direction
RayDir ==
    LET dirX == RMul(Cos(camera.pitch), Cos(camera.yaw))
        dirY == Sin(camera.pitch)
        dirZ == RMul(Cos(camera.pitch), Sin(camera.yaw))
        len == RSqrt(RAdd(RAdd(RMul(dirX, dirX), RMul(dirY, dirY)), RMul(dirZ, dirZ)))
    IN  Vec3(RDiv(dirX, len), RDiv(dirY, len), RDiv(dirZ, len))

\* t: how far along the ray the leaf's real position projects
RayT(obj) == VDot(VSub(getRealPosition(obj), CameraPos), RayDir)

\* distSq: squared distance from the leaf's real position to that ray point
RayMissSq(obj) ==
    LET t == RayT(obj)
        rayPoint == Vec3(RAdd(camera.x, RMul(t, RayDir.x)),
                         RAdd(camera.y, RMul(t, RayDir.y)),
                         RAdd(camera.z, RMul(t, RayDir.z)))
    IN  DistSq(getRealPosition(obj), rayPoint)

\* the hit test accepting any leaf in reach, nearer than the best or not
HitCandidate_AnyInReach(obj, closestDist) ==
    /\ RGt(RayT(obj), I(0))
    /\ RLt(RayT(obj), InteractionReach)
    /\ RLt(RayMissSq(obj), InteractionRadiusSq)

\* t > 0 && t < closestDist, and then distSq < 1.5f * 1.5f
HitCandidate(obj, closestDist) ==
    /\ RGt(RayT(obj), I(0))
    /\ RLt(RayT(obj), closestDist)
    /\ RLt(RayMissSq(obj), InteractionRadiusSq)

\* findClosestObject: best is (closestDist, closestObj), passed by reference
RECURSIVE findClosestObject(_, _), findClosestEach(_, _)
findClosestObject(obj, best) ==
    IF IsContainer(obj) THEN findClosestEach(heap[obj].children, best)
    ELSE IF HitCandidate(obj, best.closestDist)
    THEN [closestDist |-> RayT(obj), closestObj |-> obj]
    ELSE best

findClosestEach(cs, best) ==
    IF cs = <<>> THEN best
    ELSE findClosestEach(Tail(cs), findClosestObject(Head(cs), best))

\* where scene assembly puts a node relative to its parent, seen from a
\* viewer at the origin looking along x
LookPlaces == { V(2, 0, 0), V(5, 0, 0), V(1, 2, 0), V(-3, 0, 0) }

\* looking along +x, along -x
YawSamples == { I(0), I(180) }

\* scene shapes, each node's parent: three root leaves; a Container of two
\* leaves; a leaf two Containers deep and a root leaf; a root leaf and a
\* Container of two leaves
LookShapes == { <<0, 0, 0>>, <<0, 1, 1>>, <<0, 1, 2, 0>>, <<0, 0, 2, 2>> }

\* the scene of that shape with its nodes placed by `at`; the roots own the
\* interaction handlers
LookScene(par, at) ==
    [n \in DOMAIN par |->
        [GameObject EXCEPT
            !.kind = IF ChildrenOf(par, n) = <<>> THEN "Cube" ELSE "Container",
            !.parent = par[n],
            !.children = ChildrenOf(par, n),
            !.position = at[n],
            !.interactAction = (par[n] = NoNode)]]

LookScenes ==
    UNION { { LookScene(par, at) : at \in [DOMAIN par -> LookPlaces] } :
            par \in LookShapes }

InitLook ==
    /\ heap \in LookScenes
    /\ objects = Roots(heap)
    /\ physicsObjects = <<>>
    /\ \E yaw \in YawSamples :
          camera = [CameraInit EXCEPT !.y = I(0), !.z = I(0), !.yaw = yaw]
    /\ targetAngle = DoorAngles
    /\ currentAngle = DoorAngles
    /\ gl = GLInit
    /\ drawLog = <<>>
    /\ pc = "idle"
    /\ call = [target |-> NoNode, this |-> NoNode]
    /\ ret = <<>>
    /\ keys = {}
    /\ playerVelocityY = I(0)
    /\ lastTime = 0

\* keyboard('e', x, y): checkInteraction() looks for the closest leaf and
\* calls its interact()
CheckInteraction ==
    /\ pc = "idle"
    /\ keys' = keys \cup {"e"}
    /\ LET best == findClosestEach(objects, [closestDist |-> InteractionReach,
                                             closestObj |-> NoNode])
       IN  /\ call' = [target |-> best.closestObj, this |-> best.closestObj]
           /\ pc' = IF best.closestObj # NoNode THEN "interact" ELSE "returned"
    /\ ret' = <<>>
    /\ UNCHANGED <<heap, objects, physicsObjects, camera, targetAngle,
                   currentAngle, gl, drawLog, playerVelocityY, lastTime>>

NextLook ==
    \/ CheckInteraction
    \/ InteractStep
    \/ InteractReturn
    \/ KeyUp("e")

SpecLook == InitLook /\ [][NextLook]_vars

\* the leaves the ray can pick: in front, within reach, close to the ray
Qualifying ==
    { l \in Leaves :
        /\ RGt(RayT(l), I(0))
        /\ RLt(RayT(l), InteractionReach)
        /\ RLt(RayMissSq(l), InteractionRadiusSq) }

\* checkInteraction has made its choice
Looked == pc \in {"interact", "returned"}

\* C16: the leaf whose interact() checkInteraction invokes is a qualifying
\* leaf (t > 0, t < 10, miss distance < 1.5) with the smallest t of all
\* qualifying leaves of all roots, whatever the order of visit; when no leaf
\* qualifies no interact() is invoked and no handler runs.
C16_NearestQualifyingLeaf ==
    Looked =>
        IF Qualifying = {}
        THEN call.target = NoNode /\ pc = "returned" /\ ret = <<>>
        ELSE /\ call.target \in Qualifying
             /\ \A l \in Qualifying : ~RLt(RayT(l), RayT(call.target))
             /\ ret # <<>> => call.target \in ChainSet(ret[1])
                              \/ ret[1] \in ChainSet(call.target)

\* C16 witness: the nearest qualifying leaf was visited after a farther
\* qualifying one, and a leaf nearer still but off the ray was passed over
C16_Witness ==
    /\ Looked
    /\ \E far \in Qualifying, off \in Leaves \ Qualifying :
          /\ RLt(RayT(call.target), RayT(far))
          /\ far < call.target
          /\ RGt(RayT(off), I(0))
          /\ RLt(RayT(off), RayT(call.target))

\* C16 witness: a leaf on the ray is passed over for being out of reach
C16_WitnessReach ==
    /\ Looked
    /\ call.target # NoNode
    /\ \E l \in Leaves : RayMissSq(l) = I(0) /\ RayT(l) = InteractionReach

\* C16 witness: there are leaves but none qualifies
C16_WitnessNone ==
    /\ pc = "returned"
    /\ call.target = NoNode
    /\ Leaves # {}
    /\ Qualifying = {}

-----------------------------------------------------------------------------
(* Scene assembly: new, addChild, clone, delete (Container.cpp, GameObject.h) *)

\* the memory of a node after delete
Freed == [GameObject EXCEPT !.kind = "freed"]

IsAlive(h, n) == n \in DOMAIN h /\ h[n].kind # "freed"

\* the nodes of h that list c as a child, once for each time they do
OwnersOf(h, c) ==
    { pk \in (DOMAIN h) \X (1..Len(h)) :
        /\ IsAlive(h, pk[1])
        /\ pk[2] <= Len(h[pk[1]].children)
        /\ h[pk[1]].children[pk[2]] = c }

\* n and everything below it through child lists
RECURSIVE SubtreeOf(_, _)
SubtreeOf(h, n) ==
    {n} \cup UNION { SubtreeOf(h, h[n].children[k]) : k \in 1..Len(h[n].children) }

\* Container::addChild: child->setParent(this); children.push_back(child)
addChild(h, this, child) ==
    [h EXCEPT ![child].parent = this, ![this].children = Append(@, child)]

\* clone(): a leaf is copied by its copy constructor, every member included;
\* Container::clone makes a new Container, copies position, rotation, scale,
\* material and castsShadow, and adds a clone of each child.  The result is
\* the memory after the call and the address of the clone.
RECURSIVE clone(_, _), cloneChildren(_, _, _)
clone(h, n) ==
    IF h[n].kind # "Container"
    THEN [h |-> Append(h, h[n]), id |-> Len(h) + 1]
    ELSE cloneChildren(
             Append(h, [GameObject EXCEPT
                           !.kind = "Container",
                           !.position = h[n].position,
                           !.rotation = h[n].rotation,
                           !.scale = h[n].scale,
                           !.diffuseAlpha = h[n].diffuseAlpha,
                           !.castsShadow = h[n].castsShadow]),
             Len(h) + 1, h[n].children)

cloneChildren(h, newC, cs) ==
    IF cs = <<>> THEN [h |-> h, id |-> newC]
    ELSE LET r == clone(h, Head(cs))
         IN  cloneChildren(addChild(r.h, newC, r.id), newC, Tail(cs))

\* ~Container deleting nothing but itself
destroy_OwnOnly(h, n) == [h |-> [h EXCEPT ![n] = Freed], log |-> <<n>>]

\* delete n: ~Container deletes each child in turn, then the node's own
\* memory is released.  The result is the memory after it and the nodes
\* whose destructor ran, in order.
RECURSIVE destroy(_, _), destroyChildren(_, _, _)
destroy(h, n) ==
    LET r == IF h[n].kind = "Container"
             THEN destroyChildren(h, h[n].children, <<n>>)
             ELSE [h |-> h, log |-> <<n>>]
    IN  [h |-> [r.h EXCEPT ![n] = Freed], log |-> r.log]

destroyChildren(h, cs, log) ==
    IF cs = <<>> THEN [h |-> h, log |-> log]
    ELSE LET r == destroy(h, Head(cs))
         IN  destroyChildren(r.h, Tail(cs), log \o r.log)

InitBuild ==
    /\ heap = <<>>
    /\ objects = <<>>
    /\ physicsObjects = <<>>
    /\ camera = CameraInit
    /\ targetAngle = DoorAngles
    /\ currentAngle = DoorAngles
    /\ gl = GLInit
    /\ drawLog = <<>>
    /\ pc = "idle"
    /\ call = <<>>
    /\ ret = <<>>
    /\ keys = {}
    /\ playerVelocityY = I(0)
    /\ lastTime = 0

\* the variables scene assembly leaves alone
BuildFrame ==
    UNCHANGED <<objects, physicsObjects, camera, targetAngle, currentAngle,
                gl, drawLog, keys, playerVelocityY, lastTime>>

\* new Cube() with both callbacks set; new Container() with both or neither
NewNode(kind, cb) ==
    /\ pc = "idle"
    /\ kind = "Cube" => cb
    /\ Len(heap) < BuildNodes
    /\ heap' = Append(heap, [GameObject EXCEPT !.kind = kind,
                                               !.updateAction = cb,
                                               !.interactAction = cb])
    /\ UNCHANGED <<pc, call, ret>>
    /\ BuildFrame

\* this->addChild(child), as scene assembly calls it: on a node allocated
\* after this one and that no Container holds yet
AddChild(this, child) ==
    /\ pc = "idle"
    /\ IsAlive(heap, this) /\ IsAlive(heap, child)
    /\ IsContainer(this)
    /\ this < child
    /\ OwnersOf(heap, child) = {}
    /\ heap' = addChild(heap, this, child)
    /\ UNCHANGED <<pc, call, ret>>
    /\ BuildFrame

\* n->clone()
Clone(n) ==
    /\ pc = "idle"
    /\ IsAlive(heap, n)
    /\ Len(heap) + Cardinality(SubtreeOf(heap, n)) <= BuildNodes
    /\ LET r == clone(heap, n)
       IN  /\ heap' = r.h
           /\ call' = [orig |-> n, copy |-> r.id, before |-> heap]
    /\ pc' = "cloned"
    /\ UNCHANGED ret
    /\ BuildFrame

\* setPosition on a node of the clone's subtree
MoveCloned(m) ==
    /\ pc = "cloned"
    /\ m \in SubtreeOf(heap, call.copy)
    /\ heap' = [heap EXCEPT ![m].position = V(1, 0, 0)]
    /\ pc' = "moved"
    /\ UNCHANGED <<call, ret>>
    /\ BuildFrame

\* assembly goes on
CloneReturn ==
    /\ pc \in {"cloned", "moved"}
    /\ pc' = "idle"
    /\ call' = <<>>
    /\ UNCHANGED <<heap, ret>>
    /\ BuildFrame

\* delete n, for a node no Container holds; assembly ends with it
Destroy(n) ==
    /\ pc = "idle"
    /\ IsAlive(heap, n)
    /\ OwnersOf(heap, n) = {}
    /\ LET r == destroy(heap, n)
       IN  /\ heap' = r.h
           /\ ret' = r.log
    /\ call' = [victim |-> n, before |-> heap]
    /\ pc' = "destroyed"
    /\ BuildFrame

NextBuild ==
    \/ \E kind \in {"Cube", "Container"}, cb \in BOOLEAN : NewNode(kind, cb)
    \/ \E this \in DOMAIN heap, child \in DOMAIN heap : AddChild(this, child)
    \/ \E n \in DOMAIN heap : Clone(n)
    \/ \E m \in DOMAIN heap : MoveCloned(m)
    \/ CloneReturn
    \/ \E n \in DOMAIN heap : Destroy(n)

SpecBuild == InitBuild /\ [][NextBuild]_vars

\* the members clone() is to reproduce
Members(o) ==
    <<o.kind, o.position, o.rotation, o.scale, o.diffuseAlpha, o.castsShadow,
      o.updateAction, o.interactAction>>

\* b is a deep copy of a: equal members, and children that are deep copies
\* of a's children, in order, on other nodes
RECURSIVE IsDeepCopy(_, _, _)
IsDeepCopy(h, a, b) ==
    /\ a # b
    /\ Members(h[a]) = Members(h[b])
    /\ Len(h[a].children) = Len(h[b].children)
    /\ \A k \in 1..Len(h[a].children) :
           IsDeepCopy(h, h[a].children[k], h[b].children[k])

\* C17: clone() returns a deep copy.  The clone has the position, rotation,
\* scale, material, castsShadow flag, behaviour function and interaction
\* handler of the original, whatever the node kind; its children are clones
\* of the original's children in the same order, on nodes of their own; and
\* neither the cloning nor a later change to a node of the clone's subtree
\* changes any node of the original's subtree.
C17_CloneIsDeepCopy ==
    /\ pc = "cloned" =>
           /\ IsDeepCopy(heap, call.orig, call.copy)
           /\ SubtreeOf(heap, call.orig) \cap SubtreeOf(heap, call.copy) = {}
    /\ pc \in {"cloned", "moved"} =>
           \A m \in SubtreeOf(call.before, call.orig) : heap[m] = call.before[m]

\* C18: ownership is a tree that the parent back-references agree with.
\* Every live node is in at most one child list and at most once; its parent
\* is the Container whose list holds it, and is unset when no list holds it;
\* and no node is below itself.
C18_OwnershipTree ==
    \A n \in DOMAIN heap :
        IsAlive(heap, n) =>
            /\ Cardinality(OwnersOf(heap, n)) <= 1
            /\ \A pk \in OwnersOf(heap, n) : heap[n].parent = pk[1]
            /\ OwnersOf(heap, n) = {} => heap[n].parent = NoNode
            /\ \A k \in 1..Len(heap[n].children) :
                   n \notin SubtreeOf(heap, heap[n].children[k])

\* C19: deleting a Container destroys every node of its subtree exactly
\* once.  The destructors that ran are those of the nodes of the subtree, each
\* one time; afterwards no node of the subtree is live, and every node
\* outside it is as it was.
C19_DestroySubtreeOnce ==
    pc = "destroyed" =>
        LET sub == SubtreeOf(call.before, call.victim)
        IN  /\ { ret[i] : i \in 1..Len(ret) } = sub
            /\ Len(ret) = Cardinality(sub)
            /\ \A m \in sub : ~IsAlive(heap, m)
            /\ \A m \in DOMAIN heap \ sub : heap[m] = call.before[m]

\* a Container was deleted that held a Container holding a node
C19_Witness ==
    /\ pc = "destroyed"
    /\ \E i \in 1..Len(ret) :
           /\ call.before[ret[i]].parent \notin {NoNode, call.victim}
           /\ call.before[ret[i]].parent \in SubtreeOf(call.before, call.victim)

\* a Container holding a node and that node's clone was deleted
C19_WitnessCloned ==
    /\ pc = "destroyed"
    /\ \E i \in 1..Len(ret), j \in 1..Len(ret) :
           /\ i < j
           /\ call.before[ret[i]].parent = call.victim
           /\ call.before[ret[j]].parent = call.victim
           /\ call.before[ret[j]].position = V(1, 0, 0)

-----------------------------------------------------------------------------
(* The world position of a node (GameObject::getRealPosition)              *)

\* a chain of nodes and one node of it, at any depth
InitPosition ==
    /\ \E ts \in ChainTransforms, n \in 1..(MaxDepth + 1) :
          /\ n <= Len(ts)
          /\ heap = ChainHeap(ts, GameObject)
          /\ call = [node |-> n]
    /\ objects = <<>>
    /\ physicsObjects = <<>>
    /\ camera = CameraInit
    /\ targetAngle = DoorAngles
    /\ currentAngle = DoorAngles
    /\ gl = GLInit
    /\ drawLog = <<>>
    /\ pc = "start"
    /\ ret = [real |-> None, origin |-> None]
    /\ keys = {}
    /\ playerVelocityY = I(0)
    /\ lastTime = 0

\* the variables the two queries leave alone
PositionFrame ==
    UNCHANGED <<heap, objects, physicsObjects, camera, targetAngle,
                currentAngle, gl, drawLog, call, keys, playerVelocityY, lastTime>>

\* r = node->getRealPosition()
RealPosition ==
    /\ pc = "start"
    /\ pc' = "real"
    /\ ret' = [ret EXCEPT !.real = getRealPosition(call.node)]
    /\ PositionFrame

\* o = node->getPointInWorldSpace({0, 0, 0})
OriginToWorld ==
    /\ pc = "real"
    /\ pc' = "origin"
    /\ ret' = [ret EXCEPT !.origin = getPointInWorldSpace(call.node, V(0, 0, 0))]
    /\ PositionFrame

NextPosition == RealPosition \/ OriginToWorld

SpecPosition == InitPosition /\ [][NextPosition]_vars

\* C20: getRealPosition() of a node equals getPointInWorldSpace applied to
\* the local origin (0, 0, 0) of that node, for a node at any depth and all
\* positions, rotations and scales on its chain.
C20_RealPositionIsOriginInWorld ==
    pc = "origin" => ret.real = ret.origin

\* both were computed for a node two parents deep whose parent is rotated and
\* scaled, and the result is not the node's local position
C20_Witness ==
    /\ pc = "origin"
    /\ Len(Chain(call.node)) = 3
    /\ heap[heap[call.node].parent].rotation # V(0, 0, 0)
    /\ heap[heap[call.node].parent].scale # V(1, 1, 1)
    /\ heap[call.node].rotation # V(0, 0, 0)
    /\ heap[call.node].scale # V(1, 1, 1)
    /\ ret.real # heap[call.node].position

\* both were computed for a root
C20_WitnessRoot ==
    /\ pc = "origin"
    /\ heap[call.node].parent = NoNode
    /\ heap[call.node].position # V(0, 0, 0)
    /\ heap[call.node].scale # V(1, 1, 1)

-----------------------------------------------------------------------------
(* The degenerate scales of getPointInLocalSpace                           *)

\* the point getPointInLocalSpace of node m has before its division by the
\* scale: the world point in the parent's frame, untranslated and unrotated
Unscaled(m, worldPoint) ==
    LET o == heap[m]
        p0 == IF o.parent # NoNode
              THEN getPointInLocalSpace(o.parent, worldPoint)
              ELSE worldPoint
    IN  applyInverseRotation(VSub(p0, o.position), o.rotation)

\* the node and its ancestors
ChainNodes(n) == { Chain(n)[i] : i \in 1..Len(Chain(n)) }

\* C21 as stated: at the node and every ancestor, localPoint leaves a
\* coordinate undivided when the scale component has magnitude below 1e-4
\* (zero included) and divides it by the component when the magnitude is at
\* or above 1e-4.
C21_DegenerateBelowEpsilon ==
    pc = "local" =>
        \A m \in ChainNodes(call.node) :
            LET u == Unscaled(m, ret.world)
                l == getPointInLocalSpace(m, ret.world)
                s == heap[m].scale
                Used(c) == IF RLt(RAbs(c), Epsilon) THEN I(1) ELSE c
            IN  l = Vec3(RDiv(u.x, Used(s.x)), RDiv(u.y, Used(s.y)),
                         RDiv(u.z, Used(s.z)))

\* C21, amended: at the node and every ancestor, localPoint leaves a
\* coordinate undivided when the scale component has magnitude at or below
\* 1e-4 (zero included) and divides it by the component when the magnitude
\* is above 1e-4; no component is ever divided by zero.
C21_DegenerateAtOrBelowEpsilon ==
    pc = "local" =>
        \A m \in ChainNodes(call.node) :
            LET u == Unscaled(m, ret.world)
                l == getPointInLocalSpace(m, ret.world)
                s == heap[m].scale
                Used(c) == IF RGt(RAbs(c), Epsilon) THEN c ELSE I(1)
            IN  /\ Used(s.x) # I(0) /\ Used(s.y) # I(0) /\ Used(s.z) # I(0)
                /\ l = Vec3(RDiv(u.x, Used(s.x)), RDiv(u.y, Used(s.y)),
                            RDiv(u.z, Used(s.z)))

\* an ancestor of the converted node has a scale component of exactly 1e-4
\* and the coordinate it leaves undivided is not zero
C21_Witness ==
    /\ pc = "local"
    /\ \E m \in ChainNodes(call.node) \ {call.node} :
           /\ heap[m].scale.y = Epsilon
           /\ Unscaled(m, ret.world).y # I(0)

\* a node of the chain has a zero scale component
C21_WitnessZero ==
    /\ pc = "local"
    /\ \E m \in ChainNodes(call.node) :
           /\ heap[m].scale.x = I(0)
           /\ Unscaled(m, ret.world).x # I(0)

\* a node of the chain has a component just above 1e-4, which is divided by
C21_WitnessAbove ==
    /\ pc = "local"
    /\ \E m \in ChainNodes(call.node) :
           /\ heap[m].scale.x = Q(1, 5000)
           /\ Unscaled(m, ret.world).x # I(0)

-----------------------------------------------------------------------------
(* Where the draw traversal places a point (GameObject::draw,              *)
(* Container::draw)                                                         *)

\* glRotatef(deg, 1, 0, 0), glRotatef(deg, 0, 1, 0), glRotatef(deg, 0, 0, 1)
\* applied to a point
glRotateX(v, deg) ==
    Vec3(v.x,
         RSub(RMul(v.y, Cos(deg)), RMul(v.z, Sin(deg))),
         RAdd(RMul(v.y, Sin(deg)), RMul(v.z, Cos(deg))))

glRotateY(v, deg) ==
    Vec3(RAdd(RMul(v.x, Cos(deg)), RMul(v.z, Sin(deg))),
         v.y,
         RAdd(RMul(RNeg(v.x), Sin(deg)), RMul(v.z, Cos(deg))))

glRotateZ(v, deg) ==
    Vec3(RSub(RMul(v.x, Cos(deg)), RMul(v.y, Sin(deg))),
         RAdd(RMul(v.x, Sin(deg)), RMul(v.y, Cos(deg))),
         v.z)

\* glScalef(s.x, s.y, s.z) applied to a point
glScale(v, s) == Vec3(RMul(v.x, s.x), RMul(v.y, s.y), RMul(v.z, s.z))

\* The matrix one draw() multiplies onto the modelview stack, applied to a
\* point.  Each gl call multiplies the current matrix on the right, so the
\* call made last acts on the point first: scale, rotation about Z, about Y,
\* about X, translation.
ModelMatrix(o, v) ==
    VAdd(glRotateX(glRotateY(glRotateZ(glScale(v, o.scale), o.rotation.z),
                             o.rotation.y),
                   o.rotation.x),
         o.position)

\* the point of node n's frame under the modelview matrix in force when n's
\* mesh is drawn: n's own matrix first, then those the ancestors pushed
RECURSIVE drawPlaces(_, _)
drawPlaces(n, v) ==
    LET q == ModelMatrix(heap[n], v)
    IN  IF heap[n].parent # NoNode THEN drawPlaces(heap[n].parent, q) ELSE q

\* a chain of nodes ending in a leaf, and a point of the leaf's frame
InitPlace ==
    /\ \E ts \in ChainTransforms, p \in PointSamples :
          /\ heap = ChainHeap(ts, [GameObject EXCEPT !.kind = "Cube"])
          /\ call = [node |-> Len(ts), p |-> p]
    /\ objects = <<1>>
    /\ physicsObjects = <<>>
    /\ camera = CameraInit
    /\ targetAngle = DoorAngles
    /\ currentAngle = DoorAngles
    /\ gl = GLInit
    /\ drawLog = <<>>
    /\ pc = "start"
    /\ ret = <<>>
    /\ keys = {}
    /\ playerVelocityY = I(0)
    /\ lastTime = 0

PlaceFrame ==
    UNCHANGED <<heap, objects, physicsObjects, camera, targetAngle,
                currentAngle, gl, drawLog, call, keys, playerVelocityY, lastTime>>

\* the root is drawn: where the leaf's vertex p lands
PlaceByDraw ==
    /\ pc = "start"
    /\ ret' = [drawn |-> drawPlaces(call.node, call.p)]
    /\ pc' = "drawn"
    /\ PlaceFrame

\* leaf->getPointInWorldSpace(p)
PlaceByConversion ==
    /\ pc = "drawn"
    /\ ret' = [world |-> getPointInWorldSpace(call.node, call.p)] @@ ret
    /\ pc' = "placed"
    /\ PlaceFrame

NextPlace == PlaceByDraw \/ PlaceByConversion

SpecPlace == InitPlace /\ [][NextPlace]_vars

\* C22: the draw traversal and worldPoint agree.  For every leaf and every
\* local point p, the position at which the matrices pushed by draw along
\* the path from the root place p equals worldPoint(p), whatever the Euler
\* angles, scales and positions on the path.
C22_DrawPlacesAtWorldPoint ==
    pc = "placed" => ret.drawn = ret.world

\* the same, for paths on which no node turns about more than one axis
C22_SingleAxisPathsAgree ==
    (/\ pc = "placed"
     /\ \A m \in ChainNodes(call.node) :
            Cardinality({ c \in {"x", "y", "z"} :
                            heap[m].rotation[c] # I(0) }) <= 1)
        => ret.drawn = ret.world

-----------------------------------------------------------------------------
(* The vertical test of isOverlap                                          *)

\* an isOverlap answer and the box and point it was given for
Answered ==
    \/ pc = "queried" /\ call.moves = 0
    \/ pc = "requeried"

Answer == IF pc = "requeried" THEN ret.after ELSE ret.before

\* C23 as stated: once the point passes the X/Z test, isOverlap is true
\* exactly when the closed interval [localY - localHeight, localY] meets the
\* closed interval [-hh, hh], touching at an endpoint included.
C23_ClosedIntervalsMeet ==
    (Answered /\ ~OutsideXZ(call.box, call.pt)) =>
        LET l == getPointInLocalSpace(call.box, call.pt)
            hh == RDiv(heap[call.box].height, I(2))
        IN  Answer = (/\ ~RGt(RSub(l.y, LocalHeight(call.box)), hh)
                      /\ ~RLt(l.y, RNeg(hh)))

\* C23, amended: once the point passes the X/Z test, isOverlap is true
\* exactly when localY - localHeight < hh and localY > -hh, both strict: the
\* intervals share more than an endpoint, and a span that merely touches the
\* box's range (localY = -hh, or localY - localHeight = hh) is not accepted.
C23_OpenIntervalsMeet ==
    (Answered /\ ~OutsideXZ(call.box, call.pt)) =>
        LET l == getPointInLocalSpace(call.box, call.pt)
            hh == RDiv(heap[call.box].height, I(2))
        IN  Answer = (/\ RLt(RSub(l.y, LocalHeight(call.box)), hh)
                      /\ RGt(l.y, RNeg(hh)))

\* the point passed the X/Z test with localY = -hh and was rejected
C23_Witness ==
    /\ Answered /\ ~OutsideXZ(call.box, call.pt)
    /\ getPointInLocalSpace(call.box, call.pt).y
         = RNeg(RDiv(heap[call.box].height, I(2)))
    /\ Answer = FALSE

\* the point passed the X/Z test with localY - localHeight = hh and was
\* rejected
C23_WitnessTop ==
    /\ Answered /\ ~OutsideXZ(call.box, call.pt)
    /\ RSub(getPointInLocalSpace(call.box, call.pt).y, LocalHeight(call.box))
         = RDiv(heap[call.box].height, I(2))
    /\ Answer = FALSE

\* a span strictly inside the range was accepted under a rotated, scaled parent
C23_WitnessAccepted ==
    /\ Answered /\ ~OutsideXZ(call.box, call.pt)
    /\ Len(heap) >= 2
    /\ Answer = TRUE

-----------------------------------------------------------------------------
(* The player's dimensions in the box's frame                              *)

\* the product, component by component, of the scales of n and its ancestors
RECURSIVE WorldScale(_)
WorldScale(n) ==
    LET s == heap[n].scale
        up == IF heap[n].parent # NoNode THEN WorldScale(heap[n].parent)
              ELSE V(1, 1, 1)
    IN  Vec3(RMul(up.x, s.x), RMul(up.y, s.y), RMul(up.z, s.z))

\* C24: isOverlap converts the player's radius and height into the box's
\* frame by dividing by the box's world scale, the product of the scale
\* components of the box and of all its ancestors; a box of scale 1 under a
\* parent of scale s gets the local radius and height of a parentless box of
\* scale s.
C24_PlayerDividedByWorldScale ==
    Answered =>
        LET w == WorldScale(call.box)
        IN  /\ LocalRadius(call.box)
                 = RMul(PLAYER_RADIUS, RMax(RAbs(PlayerScale(w.x)),
                                            RAbs(PlayerScale(w.z))))
            /\ LocalHeight(call.box)
                 = RMul(PLAYER_HEIGHT, RAbs(PlayerScale(w.y)))

\* the same, for boxes that have no parent
C24_ParentlessDividedByOwnScale ==
    (Answered /\ heap[call.box].parent = NoNode) =>
        LET w == WorldScale(call.box)
        IN  /\ LocalRadius(call.box)
                 = RMul(PLAYER_RADIUS, RMax(RAbs(PlayerScale(w.x)),
                                            RAbs(PlayerScale(w.z))))
            /\ LocalHeight(call.box)
                 = RMul(PLAYER_HEIGHT, RAbs(PlayerScale(w.y)))

-----------------------------------------------------------------------------
(* rotateAround on a node that has a parent                                *)

\* transforms of the nodes above the orbiting node: none, the door frame's
\* translation, a turned and moved one, a stretched one
HangerSamples ==
    { Transform(V(0, 0, 0), V(0, 0, 0), V(1, 1, 1)),
      Transform(Vec3(I(-4), Q(6, 5), I(0)), V(0, 0, 0), V(1, 1, 1)),
      Transform(V(1, 2, 3), V(0, 90, 0), V(1, 1, 1)),
      Transform(V(0, 1, 0), V(0, 0, 0), V(2, 1, 3)) }

\* local positions of the orbiting node; the first is the left door's
SwingPlaces == { Vec3(Q(-14, 5), I(0), I(0)), V(1, 2, 3), V(0, -1, 1) }

\* the first is the left door's hinge
SwingPivots == { Vec3(Q(-71, 20), I(0), I(0)), V(1, 0, 0) }

SwingAxes == { V(0, 1, 0), V(1, 2, 2), V(0, 0, 0) }

SwingAngles == { I(90), I(180), I(-90) }

\* chains of 0 .. MaxDepth nodes above the orbiting node
HangerChains == UNION { [1..k -> HangerSamples] : k \in 0..MaxDepth }

InitSwing ==
    /\ \E up \in HangerChains, p \in SwingPlaces, pv \in SwingPivots,
          ax \in SwingAxes, an \in SwingAngles :
          /\ heap = ChainHeap(Append(up, Transform(p, V(0, 0, 0), V(1, 1, 1))),
                              GameObject)
          /\ call = [node |-> Len(up) + 1, pivot |-> pv, axis |-> ax, angle |-> an]
    /\ objects = <<>>
    /\ physicsObjects = <<>>
    /\ camera = CameraInit
    /\ targetAngle = DoorAngles
    /\ currentAngle = DoorAngles
    /\ gl = GLInit
    /\ drawLog = <<>>
    /\ pc = "start"
    /\ ret = <<>>
    /\ keys = {}
    /\ playerVelocityY = I(0)
    /\ lastTime = 0

\* obj->rotateAround(px, py, pz, ax, ay, az, angle) on the deepest node
Swing ==
    /\ pc = "start"
    /\ ret' = [position |-> heap[call.node].position,
               real |-> getRealPosition(call.node)]
    /\ heap' = [heap EXCEPT ![call.node] =
                  rotateAround(heap[call.node], call.pivot, call.axis, call.angle)]
    /\ pc' = "done"
    /\ UNCHANGED <<objects, physicsObjects, camera, targetAngle, currentAngle,
                   gl, drawLog, call, keys, playerVelocityY, lastTime>>

NextSwing == Swing

SpecSwing == InitSwing /\ [][NextSwing]_vars

\* the pivot as a point of the world when read in the frame of the parent
PivotInWorld ==
    IF heap[call.node].parent # NoNode
    THEN getPointInWorldSpace(heap[call.node].parent, call.pivot)
    ELSE call.pivot

\* every node above the orbiting one has scale components of magnitude 1
RigidAbove ==
    \A m \in ChainNodes(call.node) \ {call.node} :
        /\ RAbs(heap[m].scale.x) = I(1)
        /\ RAbs(heap[m].scale.y) = I(1)
        /\ RAbs(heap[m].scale.z) = I(1)

\* C25 as stated: the pivot is a world-space point; for a node whose parent
\* is translated, rotated or scaled, the distance between the node's world
\* position and the pivot is the same before and after rotateAround.
C25_WorldPivotDistanceKept ==
    pc = "done" =>
        DistSq(getRealPosition(call.node), call.pivot)
            = DistSq(ret.real, call.pivot)

\* C25, amended: the pivot is a point of the frame of the node's parent
\* (world space only for a parentless node).  rotateAround keeps the distance
\* between the node's local position and the pivot; and when no ancestor is
\* scaled, it keeps the distance between the node's world position and the
\* world image of the pivot under the parent's transform.
C25_ParentFramePivotDistanceKept ==
    pc = "done" =>
        /\ DistSq(heap[call.node].position, call.pivot)
             = DistSq(ret.position, call.pivot)
        /\ RigidAbove =>
             DistSq(getRealPosition(call.node), PivotInWorld)
                 = DistSq(ret.real, PivotInWorld)

\* a node under a turned, moved parent went a quarter turn about an oblique
\* axis: its distance to the pivot read as a world point changed
C25_Witness ==
    /\ pc = "done"
    /\ Len(heap) >= 2
    /\ heap[heap[call.node].parent].rotation # V(0, 0, 0)
    /\ RigidAbove
    /\ call.axis = V(1, 2, 2)
    /\ heap[call.node].position # ret.position
    /\ DistSq(getRealPosition(call.node), call.pivot)
         # DistSq(ret.real, call.pivot)

\* the left door about its hinge, under the door frame's translation
C25_WitnessDoor ==
    /\ pc = "done"
    /\ Len(heap) = 2
    /\ heap[1].position = Vec3(I(-4), Q(6, 5), I(0))
    /\ ret.position = Vec3(Q(-14, 5), I(0), I(0))
    /\ call.pivot = Vec3(Q(-71, 20), I(0), I(0))
    /\ call.axis = V(0, 1, 0)
    /\ call.angle = I(90)
    /\ heap[call.node].position # ret.position

-----------------------------------------------------------------------------
(* The two near-zero guards: isOverlap and getPointInLocalSpace            *)

\* C26: isOverlap guards a near-zero scale with the threshold of
\* getPointInLocalSpace.  For every scale of the box, a component is taken
\* for 1 when the player's radius and height are scaled if and only if it is
\* taken for 1 when the query point is divided by the scale, so the point
\* and the player's dimensions are converted with the same factor on each
\* axis.
C26_SameGuardForPointAndPlayer ==
    Answered =>
        LET s == heap[call.box].scale
        IN  /\ PlayerScale(s.x) = InverseScale(I(1), s.x)
            /\ PlayerScale(s.y) = InverseScale(I(1), s.y)
            /\ PlayerScale(s.z) = InverseScale(I(1), s.z)

\* the same, for boxes without a scale component of magnitude in
\* (0.0001, 0.001]
C26_SameFactorOutsideTheGap ==
    (/\ Answered
     /\ \A c \in {"x", "y", "z"} :
            \/ RGt(RAbs(heap[call.box].scale[c]), OverlapEpsilon)
            \/ ~RGt(RAbs(heap[call.box].scale[c]), Epsilon)) =>
        LET s == heap[call.box].scale
        IN  /\ PlayerScale(s.x) = InverseScale(I(1), s.x)
            /\ PlayerScale(s.y) = InverseScale(I(1), s.y)
            /\ PlayerScale(s.z) = InverseScale(I(1), s.z)

-----------------------------------------------------------------------------
(* The shadow matrix projects onto the plane along the light               *)

\* plane . v for homogeneous v
PlaneDot(fPlane, v) ==
    RAdd(RAdd(RMul(fPlane[1], v[1]), RMul(fPlane[2], v[2])),
         RAdd(RMul(fPlane[3], v[3]), RMul(fPlane[4], v[4])))

\* C27: for any light L, plane (A,B,C,D) and homogeneous point p, the
\* matrix M of buildShadowMatrix has M[i][i] = dot - L[i]*plane[i] and
\* M[i][j] = -L[i]*plane[j] with dot = plane . L; the image q = M p lies on
\* the plane (A qx + B qy + C qz + D qw = 0) and equals dot*p minus a
\* multiple of L, the multiple being plane . p.
C27_ProjectsOntoPlaneAlongLight ==
    pc \in {"once", "twice"} =>
        LET L == call.fLightPos
            P == call.fPlane
            dot == ShadowDot(L, P)
            q == ret.once
        IN  /\ \A i \in 1..4, j \in 1..4 :
                   Elem(ret.fMatrix, i, j)
                     = RSub(IF i = j THEN dot ELSE I(0), RMul(L[i], P[j]))
            /\ PlaneDot(P, q) = I(0)
            /\ \A i \in 1..4 :
                   q[i] = RSub(RMul(dot, call.pt[i]),
                               RMul(PlaneDot(P, call.pt), L[i]))

\* a point off a plane that misses the origin, a light at a finite place:
\* the image is neither the point nor the zero vector
C27_Witness ==
    /\ pc = "once"
    /\ call.fLightPos[4] # I(0)
    /\ call.fPlane[4] # I(0)
    /\ PlaneDot(call.fPlane, call.pt) # I(0)
    /\ ShadowDot(call.fLightPos, call.fPlane) # I(0)
    /\ ret.once # call.pt
    /\ ret.once # H(0, 0, 0, 0)

\* display()'s light and ground plane
C27_WitnessDisplay ==
    /\ pc = "once"
    /\ call.fLightPos = H(1, 1, 1, 0)
    /\ call.fPlane = H(0, 1, 0, 0)
    /\ call.pt = H(1, 2, 3, 1)
    /\ ret.once = H(-1, 0, 1, 1)

-----------------------------------------------------------------------------
(* The doors' swing towards their target angle                             *)

\* a tick 4 ms after the last one: 120 dt is 0.48 degrees
ShortDt == Q(1, 250)

\* the elapsed times of SpecDoor, and the short one
LiveDtSamples == DtSamples \cup {ShortDt}

\* dt in milliseconds
Millis(dt) == (1000 * dt[1]) \div dt[2]

\* the long elapsed times are multiples of 750 ms
ClockPeriod == 750

\* the viewer in front of the doors and behind them
LiveViewerSamples == { <<I(-7), I(5)>>, <<I(-7), I(-5)>> }

\* the doors closed and at rest in `door` as main.cpp places it
InitDoorLive ==
    /\ keys = {}
    /\ playerVelocityY = I(0)
    /\ lastTime = 0
    /\ heap = DoorHeap(Transform(Vec3(I(-4), Q(6, 5), I(0)), V(0, 0, 0),
                                 Vec3(I(1), Q(19, 20), I(1))))
    /\ \E v \in LiveViewerSamples :
           camera = [CameraInit EXCEPT !.x = v[1], !.z = v[2]]
    /\ objects = <<Frame>>
    /\ physicsObjects = <<>>
    /\ targetAngle = DoorAngles
    /\ currentAngle = DoorAngles
    /\ gl = GLInit
    /\ drawLog = <<>>
    /\ pc = "idle"
    /\ call = [target |-> NoNode, this |-> NoNode,
               targetBefore |-> DoorAngles, currentBefore |-> DoorAngles]
    /\ ret = <<>>

\* GLUT calls the idle callback update(): a tick begins, dt seconds after
\* the last one.  lastTime is the clock at the tick in milliseconds, kept
\* modulo ClockPeriod; short ticks are taken until it reaches MaxPhase.
TickCall(dt) ==
    /\ pc = "idle"
    /\ (lastTime + Millis(dt)) % ClockPeriod <= MaxPhase
    /\ lastTime' = (lastTime + Millis(dt)) % ClockPeriod
    /\ pc' = "tick"
    /\ call' = [dt |-> dt] @@ call
    /\ UNCHANGED <<heap, objects, physicsObjects, camera, targetAngle,
                   currentAngle, gl, drawLog, ret, keys, playerVelocityY>>

\* Container::update of `door` with the tick's deltaTime: rightDoor's and
\* leftDoor's update callbacks run, in this order, and update() returns
TickRun ==
    /\ pc = "tick"
    /\ LET r == doorUpdate(heap[RightDoor], RightHinge, currentAngle.right,
                           targetAngle.right, call.dt)
           l == doorUpdate(heap[LeftDoor], LeftHinge, currentAngle.left,
                           targetAngle.left, call.dt)
       IN  /\ heap' = [heap EXCEPT ![RightDoor] = r.obj, ![LeftDoor] = l.obj]
           /\ currentAngle' = [left |-> l.current, right |-> r.current]
    /\ pc' = "idle"
    /\ call' = [f \in DOMAIN call \ {"dt"} |-> call[f]]
    /\ UNCHANGED <<objects, physicsObjects, camera, targetAngle, gl, drawLog,
                   ret, keys, playerVelocityY, lastTime>>

NextDoorLive ==
    \/ \E v \in LiveViewerSamples : ViewerMoves(v)
    \/ \E n \in {RightDoor, LeftDoor} : DoorInteractCall(n)
    \/ DoorInteractStep
    \/ InteractReturn
    \/ \E dt \in LiveDtSamples : TickCall(dt)
    \/ TickRun

\* update() is GLUT's idle callback (glutIdleFunc): the main loop calls it
\* whenever no input event is pending, so a program that is idle again and
\* again starts ticks with a positive elapsed time again and again, however
\* many key presses come in between
SpecDoorLive ==
    /\ InitDoorLive
    /\ [][NextDoorLive]_vars
    /\ SF_vars(\E dt \in DtSamples \ {I(0)} : TickCall(dt))

DoorNode(d) == IF d = "left" THEN LeftDoor ELSE RightDoor

DoorHinge(d) == IF d = "left" THEN LeftHinge ELSE RightHinge

\* the doors come to rest on a target that stops changing, callbacks returning
DoorsSettle ==
    \A d \in {"left", "right"} : \A a \in {I(0), I(90), I(-90)} :
        ([]<>(pc = "idle") /\ <>[](targetAngle[d] = a))
            => <>[](currentAngle[d] = a)

\* what a tick does to door d, but for the bound on the size of the step
TickTurns(d) ==
    LET n == DoorNode(d)
        dt == call.dt
        diff == RSub(targetAngle[d], currentAngle[d])
        delta == RSub(currentAngle'[d], currentAngle[d])
    IN  /\ ~RGt(RAbs(delta), RAbs(diff))
        /\ ~RLt(RMul(delta, diff), I(0))
        /\ (RGt(dt, I(0)) /\ diff # I(0)) => delta # I(0)
        /\ heap'[n].rotation = VAdd(heap[n].rotation, Vec3(I(0), delta, I(0)))
        /\ delta # I(0) =>
               heap'[n] = rotateAround(heap[n], DoorHinge(d), V(0, 1, 0), delta)
        /\ delta = I(0) => heap'[n] = heap[n]

\* a tick with dt > 0 turns each door by at most 120 dt degrees
C28_TickAtSpeed ==
    TickRun =>
        \A d \in {"left", "right"} :
            /\ TickTurns(d)
            /\ RGt(call.dt, I(0)) =>
                   ~RGt(RAbs(RSub(currentAngle'[d], currentAngle[d])),
                        RMul(I(120), call.dt))

\* C28 as stated: each update tick with dt > 0 moves a door's current angle
\* toward its target by at most 120*dt degrees and never past it; the node
\* is turned by rotateAround through exactly the change of the current
\* angle; and if the target angle stops changing, the current angle
\* eventually equals it, after which ticks no longer rotate the door.
C28_DoorConvergesAtSpeed ==
    /\ [][C28_TickAtSpeed]_vars
    /\ DoorsSettle

\* a tick turns each door by at most 120 dt degrees, or, from less than one
\* degree off the target, by all that is left
C28_Tick ==
    TickRun =>
        \A d \in {"left", "right"} :
            LET diff == RSub(targetAngle[d], currentAngle[d])
                delta == RSub(currentAngle'[d], currentAngle[d])
            IN  /\ TickTurns(d)
                /\ \/ ~RGt(RAbs(delta), RMul(I(120), call.dt))
                   \/ RLt(RAbs(diff), I(1)) /\ delta = diff

\* C28, amended: each update tick moves a door's current angle toward its
\* target and never past it (with dt > 0 and the door off its target, it
\* does move), by at most 120*dt degrees while the door is one degree or
\* more off its target, and by all that is left, whatever dt (0 included),
\* once it is less than one degree off; the node is turned by rotateAround
\* through exactly the change of the current angle, and not at all once the
\* current angle equals the target; and, callbacks returning, if the target
\* angle stops changing, the current angle eventually equals it and stays
\* there.
C28_DoorConverges ==
    /\ [][C28_Tick]_vars
    /\ DoorsSettle

\* a door 0.96 degrees off its target is snapped onto it by a 4 ms tick
C28_WitnessSnap ==
    /\ pc = "tick"
    /\ call.dt = ShortDt
    /\ targetAngle.left = I(0)
    /\ currentAngle.left = Q(24, 25)

\* the left door has swung open and rests on its target
C28_Witness ==
    /\ pc = "idle"
    /\ targetAngle.left = I(90)
    /\ currentAngle.left = I(90)
    /\ heap[LeftDoor].rotation.y = I(90)
    /\ heap[LeftDoor].position # Vec3(Q(-14, 5), I(0), I(0))

\* a tick of 1.5 s, worth 180 degrees, finds the right door 90 degrees off
\* its target
C28_WitnessClamped ==
    /\ pc = "tick"
    /\ call.dt = Q(3, 2)
    /\ targetAngle.right = I(-90)
    /\ currentAngle.right = I(0)

-----------------------------------------------------------------------------
(* The viewer's height over the ticks of a jump                            *)

\* a low CollisionBox without parent under the player's start, its top at 0.5
Step == 8

GroundHeap ==
    Append(WalkHeap,
           [CollisionBox(I(1), Q(1, 2), I(1)) EXCEPT
                !.position = Vec3(I(0), Q(1, 4), I(5))])

GroundRegistries == { <<>>, <<Crate>>, <<Step>>, <<Room, WallZ>> }

\* elapsed times in tenths of a second, none included
GroundElapsed == { 0, 2 }

InitGround ==
    /\ heap = GroundHeap
    /\ objects = <<Room, Pane>>
    /\ physicsObjects \in GroundRegistries
    /\ camera = CameraInit
    /\ targetAngle = DoorAngles
    /\ currentAngle = DoorAngles
    /\ gl = GLInit
    /\ drawLog = <<>>
    /\ pc = "idle"
    /\ call = [i |-> 1]
    /\ ret = <<>>
    /\ keys = {}
    /\ playerVelocityY = I(0)
    /\ lastTime = 0

NextGround ==
    \/ KeyDown(" ")
    \/ KeyUp(" ")
    \/ \E e \in GroundElapsed : TickBeginWithin(e, MaxFall)
    \/ ResolveVertical
    \/ MoveX
    \/ MoveZ
    \/ UpdateRoot
    \/ TickEnd

SpecGround == InitGround /\ [][NextGround]_vars

\* C29: from the initial state (camera.y = 1.0, vertical velocity 0), once
\* a tick has made its ground check the viewer's height is never below
\* PLAYER_HEIGHT: not after the vertical collision correction, not at the
\* end of the tick, whatever the elapsed time (0 included), the jump key
\* and the registered collision boxes.
C29_GroundInvariant ==
    /\ ret = <<>> => camera.y = I(1)
    /\ ret # <<>> => ~RLt(camera.y, PLAYER_HEIGHT)

\* the falling viewer met the step and the tick's descent was taken back:
\* the viewer hangs at 2.148, at rest
C29_Witness ==
    /\ physicsObjects = <<Step>>
    /\ pc = "moveX"
    /\ playerVelocityY = I(0)
    /\ camera.y = Q(537, 250)
    /\ lastTime = 8

\* the first tick, of no elapsed time, has lifted the viewer from 1.0 to
\* PLAYER_HEIGHT
C29_WitnessFirstTick ==
    /\ pc = "idle"
    /\ ret # <<>>
    /\ lastTime = 0
    /\ camera.y = PLAYER_HEIGHT

\* the rising viewer met the crate and the rise was taken back
C29_WitnessHitHead ==
    /\ physicsObjects = <<Crate>>
    /\ pc = "moveX"
    /\ " " \in keys
    /\ lastTime = 2
    /\ playerVelocityY = I(0)
    /\ camera.y = PLAYER_HEIGHT

-----------------------------------------------------------------------------
(* Walking: the horizontal phase of update() under every key and yaw       *)

WalkKeys == { "w", "a", "s", "d" }

\* Camera::yaw after mouse look, in quarter turns
WalkYaws == { I(-90), I(0), I(90), I(180) }

InitWalk ==
    /\ heap = WalkHeap
    /\ objects = <<Room, Pane>>
    /\ physicsObjects \in RegistrySamples
    /\ \E yaw \in WalkYaws : camera = [CameraInit EXCEPT !.yaw = yaw]
    /\ targetAngle = DoorAngles
    /\ currentAngle = DoorAngles
    /\ gl = GLInit
    /\ drawLog = <<>>
    /\ pc = "idle"
    /\ call = [i |-> 1]
    /\ ret = <<>>
    /\ keys = {}
    /\ playerVelocityY = I(0)
    /\ lastTime = 0

NextWalk ==
    \/ \E k \in WalkKeys : KeyDown(k)
    \/ \E k \in WalkKeys : KeyUp(k)
    \/ TickBeginWithin(1, MaxWalk)
    \/ ResolveVertical
    \/ MoveX
    \/ MoveZ
    \/ UpdateRoot
    \/ TickEnd

SpecWalk == InitWalk /\ [][NextWalk]_vars

\* the viewer stood clear of every registered volume when Try Move X began
ClearAtStart == pc \in {"moveZ", "objects"} /\ ~isColliding(call.fromX)

\* C30: if isColliding is false at the viewer's position when the
\* horizontal phase of a tick starts, it is false at the viewer's position
\* after Try Move X and after Try Move Z (no volume moves in between),
\* whatever keys are held and whatever the yaw.
C30_NoHorizontalPenetration ==
    ClearAtStart => ~isColliding(CameraPos)

\* the viewer, clear of the post, stepped along x beside it and was then
\* refused the step along z into it
C30_Witness ==
    /\ ClearAtStart
    /\ pc = "objects"
    /\ physicsObjects = <<Post>>
    /\ camera.x # call.fromX.x
    /\ camera.z = call.fromX.z
    /\ isColliding(Vec3(camera.x, camera.y, call.nextZ))

\* looking along +x with s held the viewer backs into the wall and is
\* refused
C30_WitnessBacking ==
    /\ ClearAtStart
    /\ pc = "objects"
    /\ camera.yaw = I(180)
    /\ keys = {"s"}
    /\ isColliding(Vec3(call.nextX, camera.y, camera.z))
    /\ CameraPos = call.fromX

\* both steps were committed
C30_WitnessFree ==
    /\ ClearAtStart
    /\ pc = "objects"
    /\ physicsObjects = <<WallX>>
    /\ camera.x = call.nextX
    /\ camera.z = call.nextZ
    /\ camera.x # call.fromX.x
    /\ camera.z # call.fromX.z

====
